---- MODULE Spec2Model ----
(***************************************************************************)
(* Model of gleason_extraction_py:                                         *)
(*   - utils.determine_element_combinations          (SpecDEC)             *)
(*   - pattern_extraction.extract_context_affixed_values (SpecECAV)        *)
(*   - gleason_extraction.extract_gleason_scores     (SpecEGS)             *)
(*   - utils.typed_format_dt_to_standard_format_dt   (SpecTF)              *)
(*   - gleason_extraction.parse_gleason_value_string_elements (SpecPGV)    *)
(*   - gleason_extraction.prepare_text               (SpecPT)              *)
(*   - the obs_id that extract_gleason_scores computes (SpecOBS)           *)
(* Tables (DataFrames) are sequences of records, NaN/None is -1, texts are  *)
(* sequences of one-character strings.                                     *)
(***************************************************************************)
EXTENDS Integers, Sequences, FiniteSets, TLC

VARIABLES
    \* ---- determine_element_combinations ----
    dec_dt,        \* the argument dt: rows [a, b, t, c]
    n_max_each,    \* the argument n_max_each
    dec_type,      \* dt["type"]
    dec_grp,       \* dt["grp"]
    dec_grp_type,  \* dt["grp_type"]
    max_grp,       \* max_grp
    dec_pc,        \* position in the function: "start", "loop", "return", "raise"
    \* ---- extract_context_affixed_values ----
    ecav,          \* the frame of the call: arguments, locals and position
    \* ---- extract_gleason_scores ----
    egs,           \* the frame of the call: arguments, locals and position
    \* ---- typed_format_dt_to_standard_format_dt ----
    tf,            \* the frame of the call: argument, result and position
    \* ---- parse_gleason_value_string_elements ----
    pgv,           \* the frame of the call: arguments, result and position
    \* ---- prepare_text ----
    pt,            \* the frame of the call: argument, result and position
    \* ---- obs_id of extract_gleason_scores ----
    obs            \* the table whose rows are numbered, and the position

dec_vars == <<dec_dt, n_max_each, dec_type, dec_grp, dec_grp_type, max_grp, dec_pc>>

vars == <<dec_vars, ecav, egs, tf, pgv, pt, obs>>

\* np.nan / None: a value outside every value domain
NaN == -1

Min(x, y) == IF x <= y THEN x ELSE y

Max(x, y) == IF x >= y THEN x ELSE y

Range(s) == {s[k] : k \in 1..Len(s)}

\* the function f on 1..n as the sequence of its values
AsSeq(f) == SubSeq(f, 1, Len(f))

\* all sequences over S of length 0..n
SeqsUpTo(S, n) == UNION {[1..k -> S] : k \in 0..n}

(***************************************************************************)
(* utils.determine_element_combinations                                    *)
(***************************************************************************)

\* longest dt given to determine_element_combinations
MaxRows == 6

\* longest dt that contains rows violating the input contract
MaxBadRows == 2

\* values of the argument n_max_each: the 6 that
\* typed_format_dt_to_standard_format_dt passes (the default 5 behaves the
\* same on dts of up to 11 rows) and 2, a cap that dts of MaxRows rows reach
NMaxEachArgs == {2, 6}

Roles == <<"a", "b", "t", "c">>

RoleSet == Range(Roles)

\* the row holding one value under `role` and NaN elsewhere
ElemRow(role) == [r \in RoleSet |-> IF r = role THEN 4 ELSE NaN]

ValidRows == {ElemRow(role) : role \in RoleSet}

\* rows with no value, and with two values
BadRows == {[r \in RoleSet |-> NaN],
            [r \in RoleSet |-> IF r \in {"a", "b"} THEN 4 ELSE NaN]}

DecInputs == SeqsUpTo(ValidRows, MaxRows) \cup SeqsUpTo(ValidRows \cup BadRows, MaxBadRows)

NotNullCount(row) == Cardinality({r \in RoleSet : row[r] # NaN})

\* utils.py:95  rows whose number of non-null a/b/t/c values is not 1
DecInputInvalid(dt) == \E k \in 1..Len(dt) : NotNullCount(dt[k]) # 1

\* mutant: the combinations without those of a single role
allowed_combinations_of_several ==
    << <<"c", "a", "b", "t">>,
       <<"c", "a", "b">>,
       <<"c", "b", "a">>,
       <<"a", "b", "t", "c">>,
       <<"a", "b", "c">>,
       <<"b", "a", "c">>,
       <<"a", "b", "t">>,
       <<"a", "b">> >>

allowed_combinations ==
    << <<"c", "a", "b", "t">>,
       <<"c", "a", "b">>,
       <<"c", "b", "a">>,
       <<"a", "b", "t", "c">>,
       <<"a", "b", "c">>,
       <<"b", "a", "c">>,
       <<"a", "b", "t">>,
       <<"a", "b">>,
       <<"a">>,
       <<"b">>,
       <<"t">>,
       <<"c">> >>

\* first non-null column of the row, in column order a, b, t, c
find_non_na_elem(row) ==
    Roles[CHOOSE k \in 1..4 : row[Roles[k]] # NaN /\ \A j \in 1..(k-1) : row[Roles[j]] = NaN]

\* mutant: the whole combination n_each times, one after the other
NpTile(comb, n_each) ==
    [k \in 1..(Len(comb) * n_each) |-> comb[((k - 1) % Len(comb)) + 1]]

\* np.repeat(comb, n_each): every element n_each times, elementwise
np_repeat(comb, n_each) ==
    [k \in 1..(Len(comb) * n_each) |-> comb[((k - 1) \div n_each) + 1]]

\* r = list(range(wh_first, min(n, wh_first + len(candidate)))), 1-based and inclusive
DecWindow(n, wh_first, len) == wh_first..(Min(n + 1, wh_first + len) - 1)

\* utils.py:132-134  candidate = rep(combination i, each = n_each), r the rows
\* wh_first..min(n, wh_first + len(candidate)) - 1, and
\* np.array_equal(dt["type"][r], candidate): same length and same elements
CandidateMatches(type, wh_first, i, n_each) ==
    LET len == Len(allowed_combinations[i]) * n_each
    IN  /\ Cardinality(DecWindow(Len(type), wh_first, len)) = len
        /\ \A k \in 1..len : type[wh_first + k - 1] = np_repeat(allowed_combinations[i], n_each)[k]

\* for n_each in range(n_max_each): the first n_each + 1 that matches, 0 if none
RECURSIVE SearchEachAsc(_, _, _, _, _)
SearchEachAsc(type, wh_first, i, n_each, nmax) ==
    IF n_each > nmax THEN 0
    ELSE IF CandidateMatches(type, wh_first, i, n_each) THEN n_each
    ELSE SearchEachAsc(type, wh_first, i, n_each + 1, nmax)

\* mutant: n_each tried from n_max_each downwards
RECURSIVE SearchEachDesc(_, _, _, _, _)
SearchEachDesc(type, wh_first, i, n_each, nmax) ==
    IF n_each > nmax THEN 0
    ELSE IF CandidateMatches(type, wh_first, i, nmax + 1 - n_each) THEN nmax + 1 - n_each
    ELSE SearchEachDesc(type, wh_first, i, n_each + 1, nmax)

SearchEach(type, wh_first, i, n_each, nmax) == SearchEachAsc(type, wh_first, i, n_each, nmax)

\* for i in range(len(allowed_combinations)): the first <<i, n_each>> that matches
RECURSIVE SearchCombination(_, _, _, _)
SearchCombination(type, wh_first, i, nmax) ==
    IF i > Len(allowed_combinations) THEN <<0, 0>>
    ELSE LET n_each == SearchEach(type, wh_first, i, 1, nmax)
         IN  IF n_each > 0 THEN <<i, n_each>>
             ELSE SearchCombination(type, wh_first, i + 1, nmax)

\* dt.isnull()["grp"].idxmax(): the first row without a grp
WhFirst(grp) == CHOOSE k \in 1..Len(grp) : grp[k] = NaN /\ \A j \in 1..(k-1) : grp[j] # NaN

\* mutant: the rows of the window get n_each ids, cycling
AssignGrpInterleaved(grp, r, n_each, mg) ==
    [k \in 1..Len(grp) |->
        IF k \in r THEN mg + ((k - (CHOOSE m \in r : \A q \in r : m <= q)) % n_each) ELSE grp[k]]

\* dt.loc[r, "grp"] = max_grp
AssignGrp(grp, r, n_each, mg) == [k \in 1..Len(grp) |-> IF k \in r THEN mg ELSE grp[k]]

\* mutant: the counter advances by the number of repeats
NextMaxGrpByEach(mg, n_each) == mg + n_each

\* max_grp = max_grp + 1
NextMaxGrp(mg, n_each) == mg + 1

DecInit ==
    /\ ecav = <<>>
    /\ egs = <<>>
    /\ tf = <<>>
    /\ pgv = <<>> /\ pt = <<>> /\ obs = <<>>
    /\ dec_dt \in DecInputs
    /\ n_max_each \in NMaxEachArgs
    /\ dec_type = <<>>
    /\ dec_grp = <<>>
    /\ dec_grp_type = <<>>
    /\ max_grp = 0
    /\ dec_pc = "start"

\* utils.py:92-99  the input checks raise
DecRaise ==
    /\ dec_pc = "start"
    /\ DecInputInvalid(dec_dt)
    /\ dec_pc' = "raise"
    /\ UNCHANGED <<dec_dt, n_max_each, dec_type, dec_grp, dec_grp_type, max_grp>>

\* utils.py:116-124  type, grp = NaN, max_grp = 0
DecSetup ==
    /\ dec_pc = "start"
    /\ ~DecInputInvalid(dec_dt)
    /\ dec_type' = [k \in 1..Len(dec_dt) |-> find_non_na_elem(dec_dt[k])]
    /\ dec_grp' = [k \in 1..Len(dec_dt) |-> NaN]
    /\ dec_grp_type' = [k \in 1..Len(dec_dt) |-> <<>>]
    /\ max_grp' = 0
    /\ dec_pc' = "loop"
    /\ UNCHANGED <<dec_dt, n_max_each>>

\* utils.py:127-141  one pass of the while loop
DecPass ==
    /\ dec_pc = "loop"
    /\ NaN \in Range(dec_grp)
    /\ \E wh_first \in {WhFirst(dec_grp)} :
       \E found \in {SearchCombination(dec_type, wh_first, 1, n_max_each)} :
          IF found[1] = 0
          THEN UNCHANGED <<dec_grp, dec_grp_type, max_grp>>
          ELSE \E candidate \in {np_repeat(allowed_combinations[found[1]], found[2])} :
               \E r \in {DecWindow(Len(dec_type), wh_first, Len(candidate))} :
                  /\ dec_grp' = AssignGrp(dec_grp, r, found[2], max_grp)
                  /\ dec_grp_type' = [k \in 1..Len(dec_grp_type) |->
                                          IF k \in r THEN candidate ELSE dec_grp_type[k]]
                  /\ max_grp' = NextMaxGrp(max_grp, found[2])
    /\ UNCHANGED <<dec_dt, n_max_each, dec_type, dec_pc>>

\* utils.py:127,142  no grp is null: return dt
DecReturn ==
    /\ dec_pc = "loop"
    /\ NaN \notin Range(dec_grp)
    /\ dec_pc' = "return"
    /\ UNCHANGED <<dec_dt, n_max_each, dec_type, dec_grp, dec_grp_type, max_grp>>

DecNext == (DecRaise \/ DecSetup \/ DecPass \/ DecReturn) /\ UNCHANGED <<ecav, egs, tf, pgv, pt, obs>>

SpecDEC == DecInit /\ [][DecNext]_vars

\* the function keeps running: a step that is possible is taken
SpecDECFair == DecInit /\ [][DecNext]_vars /\ WF_vars(DecNext)


(***************************************************************************)
(* Texts and regular expressions                                           *)
(*                                                                         *)
(* A text is a sequence of characters.  A working text (text_elem) is a    *)
(* sequence of [c, src]: the character and the position it had in the      *)
(* input text, 0 for a character written by a mask.  A regular expression  *)
(* is a sequence of items [k, s, alts]:                                    *)
(*   "cls" one character of the set s        "la"  (?=[s])                 *)
(*   "lb"  (?<=[s])                                                        *)
(*   "bol" ^      "eol" $                    "alt" (alts[1]|alts[2]|...)   *)
(*   "star" [s]*                             "gstar" (alts[1])*            *)
(*   "vs", "ve"  start and end of the group (?P<value>...)                 *)
(***************************************************************************)

Digits == <<"0", "1", "2", "3", "4", "5", "6", "7", "8", "9">>

DigitSet == Range(Digits)

\* the characters of texts, patterns and masks
UpperChars == <<"P", "A", "T", "E", "R", "N", "M", "O", "D", "G", "I", "V", "X">>

LowerChars == <<"p", "a", "t", "e", "r", "n", "m", "o", "d", "g", "i", "v", "x">>

LetterSet == Range(UpperChars) \cup Range(LowerChars) \cup {"s", "b", "c", "k", "w", "f", "l"}

\* the characters of texts, patterns and masks
AllChars == DigitSet \cup LetterSet
            \cup {"+", ",", "(", ")", " ", "/", "=", "_", "%", ":", ".", "-", "\n", "\r"}

Cls(S) == [k |-> "cls", s |-> S, alts |-> <<>>]

NotCls(S) == Cls(AllChars \ S)

La(S) == [k |-> "la", s |-> S, alts |-> <<>>]

Lb(S) == [k |-> "lb", s |-> S, alts |-> <<>>]

Bol == [k |-> "bol", s |-> {}, alts |-> <<>>]

Eol == [k |-> "eol", s |-> {}, alts |-> <<>>]

Alt(alts) == [k |-> "alt", s |-> {}, alts |-> alts]

\* [s]*  (greedy: the longest run is tried first)
Star(S) == [k |-> "star", s |-> S, alts |-> <<>>]

\* (x)*  (greedy: x is tried first; x does not match the empty string)
GroupStar(items) == [k |-> "gstar", s |-> {}, alts |-> <<items>>]

\* x?  (greedy: x is tried first)
Opt(items) == Alt(<< items, <<>> >>)

ValueStart == [k |-> "vs", s |-> {}, alts |-> <<>>]

ValueEnd == [k |-> "ve", s |-> {}, alts |-> <<>>]

\* a literal string
Lit(chars) == [k \in 1..Len(chars) |-> Cls({chars[k]})]

\* None, as an element of a list of texts
None == <<"None">>

\* bool(text): neither None nor the empty string
Truthy(text) == text # <<>> /\ text # None

\* the input text with every character tagged with its position
Tag(text) == [k \in 1..Len(text) |-> [c |-> text[k], src |-> k]]

\* the characters of a working text
Untag(wtext) == [k \in 1..Len(wtext) |-> wtext[k].c]

\* characters written by a mask
Written(chars) == [k \in 1..Len(chars) |-> [c |-> chars[k], src |-> 0]]

\* the length of the run of characters of S that starts at position p
RunLen(wtext, p, S) ==
    LET stop == {q \in p..(Len(wtext) + 1) : q = Len(wtext) + 1 \/ wtext[q].c \notin S}
    IN  (CHOOSE q \in stop : \A r \in stop : q <= r) - p

\* backtracking match of `items` at position p: <<>> if none, else
\* <<end, value start, value end>> of the first match in priority order
RECURSIVE MatchSeq(_, _, _, _)
RECURSIVE TryAlts(_, _, _, _, _, _)
RECURSIVE TryStar(_, _, _, _, _)
MatchSeq(items, wtext, p, marks) ==
    IF items = <<>> THEN <<p>> \o marks
    ELSE LET it == Head(items)
             rest == Tail(items)
         IN  CASE it.k = "cls" -> IF p <= Len(wtext) /\ wtext[p].c \in it.s
                                  THEN MatchSeq(rest, wtext, p + 1, marks) ELSE <<>>
               [] it.k = "la"  -> IF p <= Len(wtext) /\ wtext[p].c \in it.s
                                  THEN MatchSeq(rest, wtext, p, marks) ELSE <<>>
               [] it.k = "lb"  -> IF p > 1 /\ wtext[p - 1].c \in it.s
                                  THEN MatchSeq(rest, wtext, p, marks) ELSE <<>>
               [] it.k = "bol" -> IF p = 1 THEN MatchSeq(rest, wtext, p, marks) ELSE <<>>
               [] it.k = "eol" -> IF p = Len(wtext) + 1 THEN MatchSeq(rest, wtext, p, marks) ELSE <<>>
               [] it.k = "vs"  -> MatchSeq(rest, wtext, p, <<p, marks[2]>>)
               [] it.k = "ve"  -> MatchSeq(rest, wtext, p, <<marks[1], p>>)
               [] it.k = "alt" -> TryAlts(it.alts, 1, rest, wtext, p, marks)
               [] it.k = "gstar" ->
                      TryAlts(<<it.alts[1] \o <<it>>, <<>> >>, 1, rest, wtext, p, marks)
               [] it.k = "star" -> TryStar(RunLen(wtext, p, it.s), rest, wtext, p, marks)

TryAlts(alts, j, rest, wtext, p, marks) ==
    IF j > Len(alts) THEN <<>>
    ELSE LET m == MatchSeq(alts[j] \o rest, wtext, p, marks)
         IN  IF m # <<>> THEN m ELSE TryAlts(alts, j + 1, rest, wtext, p, marks)

TryStar(n, rest, wtext, p, marks) ==
    IF n < 0 THEN <<>>
    ELSE LET m == MatchSeq(rest, wtext, p + n, marks)
         IN  IF m # <<>> THEN m ELSE TryStar(n - 1, rest, wtext, p, marks)

\* re.search(pattern, text): the leftmost match, <<>> if none, else
\* <<start, end, value start, value end>> (end positions are exclusive)
re_search_from(items, wtext, from) ==
    LET starts == {p \in from..(Len(wtext) + 1) : MatchSeq(items, wtext, p, <<0, 0>>) # <<>>}
    IN  IF starts = {} THEN <<>>
        ELSE LET p == CHOOSE q \in starts : \A r \in starts : q <= r
             IN  <<p>> \o MatchSeq(items, wtext, p, <<0, 0>>)

re_search(items, wtext) == re_search_from(items, wtext, 1)

\* re.sub(pattern, repl, chars): every match, left to right, not overlapping;
\* after an empty match the scan moves on by one character
RECURSIVE re_sub_from(_, _, _, _)
re_sub_from(items, repl, chars, from) ==
    LET m == re_search_from(items, [k \in 1..Len(chars) |-> [c |-> chars[k], src |-> k]], from)
    IN  IF m = <<>> THEN SubSeq(chars, from, Len(chars))
        ELSE SubSeq(chars, from, m[1] - 1) \o repl \o
             (IF m[2] > m[1] THEN re_sub_from(items, repl, chars, m[2])
              ELSE IF m[1] > Len(chars) THEN <<>>
              ELSE <<chars[m[1]]>> \o re_sub_from(items, repl, chars, m[1] + 1))

re_sub(items, repl, chars) == re_sub_from(items, repl, chars, 1)

\* mutant: the mask is put in front of the match, which stays in the text
SubFirstKeep(m, repl, wtext) ==
    SubSeq(wtext, 1, m[1] - 1) \o Written(repl) \o SubSeq(wtext, m[1], Len(wtext))

\* re.sub(pattern, repl, text, 1), for the match m of pattern in text
SubFirst(m, repl, wtext) ==
    SubSeq(wtext, 1, m[1] - 1) \o Written(repl) \o SubSeq(wtext, m[2], Len(wtext))

\* does the literal lit stand at position p of chars
LitAt(chars, lit, p) ==
    /\ p + Len(lit) - 1 <= Len(chars)
    /\ \A k \in 1..Len(lit) : chars[p + k - 1] = lit[k]

\* the first position from p on where lit stands, 0 if none
NextLit(chars, lit, p) ==
    LET at == {q \in p..Len(chars) : LitAt(chars, lit, q)}
    IN  IF at = {} THEN 0 ELSE CHOOSE q \in at : \A r \in at : q <= r

\* re.sub(lit, repl, chars) for a literal pattern: every occurrence, left to right
RECURSIVE SubAllLit(_, _, _, _)
SubAllLit(chars, lit, repl, p) ==
    LET q == NextLit(chars, lit, p)
    IN  IF q = 0 THEN SubSeq(chars, p, Len(chars))
        ELSE SubSeq(chars, p, q - 1) \o repl \o SubAllLit(chars, lit, repl, q + Len(lit))

\* re.search(lit, chars) for a literal pattern
HasLit(chars, lit) == \E p \in 1..Len(chars) : LitAt(chars, lit, p)

(***************************************************************************)
(* pattern_extraction.extract_context_affixed_values                       *)
(***************************************************************************)

\* pattern_extraction.py:55  the mask is padded with 20 underscores on each side
MaskPad == 20

\* mutant: the error is raised one match earlier
MatchLimitOneLess == 1000 - 1

\* pattern_extraction.py:92  fewer than 1000 matches per text are supported
MatchLimit == 1000

\* pattern_extraction.py:97  zfill(3)
OrderWidth == 3

OrderTag == <<"%", "O", "R", "D", "E", "R", "%">>

OrderPrefix == <<"%", "O", "R", "D", "E", "R", "=">>

NameTag == <<"%", "P", "A", "T", "T", "E", "R", "N", "_", "N", "A", "M", "E", "%">>

NamePrefix == <<"%", "P", "A", "T", "T", "E", "R", "N", "_", "N", "A", "M", "E", "=">>

\* "_" * 20 + "%PATTERN_NAME%:%ORDER%" + "_" * 20
DefaultMask ==
    [k \in 1..MaskPad |-> "_"] \o NameTag \o <<":">> \o OrderTag \o [k \in 1..MaskPad |-> "_"]

\* str(n): the decimal digits of n
RECURSIVE Str(_)
Str(n) == IF n < 10 THEN <<Digits[n + 1]>> ELSE Str(n \div 10) \o <<Digits[(n % 10) + 1]>>

\* str(n).zfill(width)
Zfill(n, width) ==
    LET d == Str(n) IN [k \in 1..(Max(width, Len(d)) - Len(d)) |-> "0"] \o d

\* int(digits)
RECURSIVE ParseInt(_)
ParseInt(d) ==
    IF d = <<>> THEN 0
    ELSE 10 * ParseInt(SubSeq(d, 1, Len(d) - 1))
         + (CHOOSE v \in 0..9 : Digits[v + 1] = d[Len(d)])

\* the characters of the pattern names that are longer than one character
PatternNameSpelling ==
    ("a + b" :> <<"a", " ", "+", " ", "b">>)
    @@ ("kw_a" :> <<"k", "w", "_", "a">>)
    @@ ("kw_b" :> <<"k", "w", "_", "b">>)
    @@ ("kw_c" :> <<"k", "w", "_", "c">>)
    @@ ("a...c" :> <<"a", ".", ".", ".", "c">>)
    @@ ("kw_d" :> <<"k", "w", "_", "d">>)

\* the characters of a pattern name
NameChars(pattern_name) ==
    IF pattern_name \in DOMAIN PatternNameSpelling
    THEN PatternNameSpelling[pattern_name] ELSE <<pattern_name>>

\* pattern_extraction.py:97-99  the mask of the match numbered n_matches - 1
NewMask(mask, n_matches, pattern_name) ==
    LET mask_num == Zfill(n_matches - 1, OrderWidth)
        new_mask == SubAllLit(mask, OrderTag, OrderPrefix \o mask_num \o <<"%">>, 1)
    IN  SubAllLit(new_mask, NameTag, NamePrefix \o NameChars(pattern_name) \o <<"%">>, 1)

\* pattern_extraction.py:64  "(?P<prefix>" + prefix + ")(?P<value>" + value + ")(?P<suffix>" + suffix + ")"
FullPattern(row) == row.prefix \o <<ValueStart>> \o row.value \o <<ValueEnd>> \o row.suffix

\* the end of the run of digits that starts at p
DigitsEnd(chars, p) ==
    LET stop == {q \in p..(Len(chars) + 1) : q = Len(chars) + 1 \/ chars[q] \notin DigitSet}
    IN  CHOOSE q \in stop : \A r \in stop : q <= r

\* pattern_extraction.py:104-105  re.findall("%ORDER=[0-9]+%", text_elem), each as int
RECURSIVE FindOrders(_, _)
FindOrders(chars, p) ==
    LET q == NextLit(chars, OrderPrefix, p)
    IN  IF q = 0 THEN <<>>
        ELSE LET d == q + Len(OrderPrefix)
                 e == DigitsEnd(chars, d)
             IN  IF e > d /\ e <= Len(chars) /\ chars[e] = "%"
                 THEN <<ParseInt(SubSeq(chars, d, e - 1))>> \o FindOrders(chars, e + 1)
                 ELSE FindOrders(chars, q + 1)

\* pattern_extraction.py:84  the while condition
WhileCondLt(st) ==
    /\ st.n_tries < st.n_max_tries_per_pattern
    /\ re_search(st.pattern_dt[st.row].full_pattern, st.text_elem) # <<>>

\* mutant: one try too many
WhileCondLe(st) ==
    /\ st.n_tries <= st.n_max_tries_per_pattern
    /\ re_search(st.pattern_dt[st.row].full_pattern, st.text_elem) # <<>>

WhileCond(st) == WhileCondLt(st)

\* the frame at the call
EcavCall(text, pattern_dt, mask, n_max_tries_per_pattern) ==
    [text |-> text, pattern_dt |-> pattern_dt, mask |-> mask,
     n_max_tries_per_pattern |-> n_max_tries_per_pattern,
     extr_dt |-> <<>>, idx |-> 0, text_elem |-> <<>>, extracted |-> <<>>,
     pattern_names |-> <<>>, pos |-> <<>>, value_src |-> <<>>, span |-> <<>>,
     row |-> 0, n_tries |-> 0, pc |-> "start", err |-> "none"]

\* pattern_extraction.py:54-67  default mask, mask check, full_pattern, empty extr_dt
EcavStart(st) ==
    LET mask == IF st.mask = <<>> THEN DefaultMask ELSE st.mask
    IN  IF ~HasLit(mask, OrderTag)
        THEN [st EXCEPT !.pc = "raise", !.err = "ValueError: mask"]
        ELSE [st EXCEPT !.mask = mask,
                        !.pattern_dt = [k \in 1..Len(st.pattern_dt) |->
                            [st.pattern_dt[k] EXCEPT !.full_pattern = FullPattern(st.pattern_dt[k])]],
                        !.pc = "text"]

\* pattern_extraction.py:70-76  the next element of text
EcavNextText(st) ==
    LET elem == st.text[st.idx + 1]
    IN  [st EXCEPT !.idx = st.idx + 1, !.extracted = <<>>, !.pattern_names = <<>>,
                   !.pos = <<>>, !.value_src = <<>>, !.span = <<>>, !.text_elem = Tag(elem),
                   !.row = 0, !.n_tries = 0,
                   !.pc = IF Truthy(elem) THEN "pattern" ELSE "text"]

\* pattern_extraction.py:78-81  the next row of pattern_dt
EcavNextPattern(st) ==
    IF st.row = Len(st.pattern_dt) THEN [st EXCEPT !.pc = "order"]
    ELSE [st EXCEPT !.row = st.row + 1, !.n_tries = 0, !.pc = "while"]

\* pattern_extraction.py:85-100  the body of the while loop: record and mask one match
EcavMatch(st) ==
    LET row == st.pattern_dt[st.row]
        m == re_search(row.full_pattern, st.text_elem)
        extracted == Append(st.extracted, Untag(SubSeq(st.text_elem, m[3], m[4] - 1)))
        rec == [st EXCEPT !.n_tries = st.n_tries + 1,
                          !.extracted = extracted,
                          !.pattern_names = Append(st.pattern_names, row.pattern_name),
                          !.pos = Append(st.pos, st.idx - 1),
                          !.value_src = Append(st.value_src,
                                IF m[4] > m[3] THEN st.text_elem[m[3]].src ELSE 0),
                          !.span = SubSeq(st.text_elem, m[1], m[2] - 1)]
    IN  IF ~(Len(extracted) < MatchLimit)
        THEN [rec EXCEPT !.pc = "raise", !.err = "ValueError: 1000 matches"]
        ELSE [rec EXCEPT !.text_elem =
                 SubFirst(m, NewMask(st.mask, Len(extracted), row.pattern_name), st.text_elem)]

\* pattern_extraction.py:84  the while loop ends
EcavEndWhile(st) == [st EXCEPT !.pc = "pattern"]

\* mutant: the rows are left in the order in which they were found
EcavOrderAsFound(st) ==
    [st EXCEPT !.pc = "text",
               !.extr_dt = st.extr_dt \o
                  [k \in 1..Len(st.extracted) |->
                      [pos |-> st.pos[k], pattern_name |-> st.pattern_names[k],
                       value |-> st.extracted[k], value_src |-> st.value_src[k],
                       order |-> k - 1]]]

\* pattern_extraction.py:103-108  the rows of this text, in the order of the masks
EcavOrder(st) ==
    IF Len(st.extracted) = 0 THEN [st EXCEPT !.pc = "text"]
    ELSE LET order_in_text == FindOrders(Untag(st.text_elem), 1)
         IN  IF \E k \in 1..Len(order_in_text) : order_in_text[k] >= Len(st.extracted)
             THEN [st EXCEPT !.pc = "raise", !.err = "KeyError"]
             ELSE [st EXCEPT !.pc = "text",
                      !.extr_dt = st.extr_dt \o
                         [k \in 1..Len(order_in_text) |->
                             [pos |-> st.pos[order_in_text[k] + 1],
                              pattern_name |-> st.pattern_names[order_in_text[k] + 1],
                              value |-> st.extracted[order_in_text[k] + 1],
                              value_src |-> st.value_src[order_in_text[k] + 1],
                              order |-> order_in_text[k]]]]

\* pattern_extraction.py:109
EcavReturn(st) == [st EXCEPT !.pc = "return"]

\* one step of the function
EcavStep(st) ==
    CASE st.pc = "start" -> EcavStart(st)
      [] st.pc = "text" -> IF st.idx < Len(st.text) THEN EcavNextText(st) ELSE EcavReturn(st)
      [] st.pc = "pattern" -> EcavNextPattern(st)
      [] st.pc = "while" -> IF WhileCond(st) THEN EcavMatch(st) ELSE EcavEndWhile(st)
      [] st.pc = "order" -> EcavOrder(st)

\* the whole call: the frame at return or raise
RECURSIVE EcavRun(_)
EcavRun(st) == IF st.pc \in {"return", "raise"} THEN st ELSE EcavRun(EcavStep(st))

extract_context_affixed_values(text, pattern_dt, mask, n_max_tries_per_pattern) ==
    EcavRun(EcavCall(text, pattern_dt, mask, n_max_tries_per_pattern))


\* ---- the calls of extract_context_affixed_values that are explored ----

\* longest text of the exhaustively enumerated single-text calls
MaxTextLen == 3

TextAlphabet == {"s", "m", "3", "4", "+"}

PatternRow(name, match_type, prefix, value, suffix) ==
    [pattern_name |-> name, match_type |-> match_type, prefix |-> prefix, value |-> value,
     suffix |-> suffix, full_pattern |-> <<>>]

\* mutant: the grades that the filter of gleason_extraction.py:744 lets through
re_abt_from_2 == <<Cls({"2", "3", "4", "5"})>>

\* "[3-5]"
re_abt == <<Cls({"3", "4", "5"})>>

\* the table of tests/test_pattern_extraction.py:37-42, with "second " written "s"
\* and "most prevalent grade " written "m"
PrevalentDt ==
    << PatternRow("b", "b", Lit(<<"s", "m">>), re_abt, <<>>),
       PatternRow("a", "a", Lit(<<"m">>), re_abt, <<>>) >>

\* the same rules in the other order
PrevalentDtReversed == <<PrevalentDt[2], PrevalentDt[1]>>

\* "[^0-9+,(]?[+,][^0-9+,]?"
re_plus ==
    << Opt(<<NotCls(DigitSet \cup {"+", ",", "("})>>),
       Cls({"+", ","}),
       Opt(<<NotCls(DigitSet \cup {"+", ","})>>) >>

\* "_"
re_mask_prefix == <<Cls({"_"})>>

\* "(^|[^_])"
re_nonmask_prefix == <<Alt(<< <<Bol>>, <<NotCls({"_"})>> >>)>>

\* gleason_extraction.py:505-510
ab_dt ==
    << PatternRow("a", "", re_nonmask_prefix, re_abt, re_plus),
       PatternRow("b", "", re_mask_prefix, re_abt, <<>>) >>

EcavTables == {PrevalentDt, PrevalentDtReversed, ab_dt}

\* the default 100 and a cap that short texts reach
EcavMaxTries == {1, 100}

\* texts in which the order of discovery differs from the order of appearance,
\* and in which a rule matches more than once
EcavLongTexts ==
    { <<"m", "4", "s", "m", "3">>,
      <<"s", "m", "3", "m", "4", "m", "3">>,
      <<"3", "+", "4", "+", "3", "+">> }

EcavPairTexts == { <<>>, <<"s", "m", "3">>, <<"m", "4", "s", "m", "3">>, <<"3", "+", "4">> }

EcavTexts ==
    {<<t>> : t \in SeqsUpTo(TextAlphabet, MaxTextLen) \cup EcavLongTexts}
    \cup {<<t1, t2>> : t1 \in EcavPairTexts, t2 \in EcavPairTexts}

\* a mask argument without %ORDER%
BadMask == <<"_", "_">>

\* the text "%ORDER=007%m3": an order token stands in the input
TokenText == OrderPrefix \o <<"0", "0", "7", "%", "m", "3">>

\* a rule that matches again after every masking: prefix "[^_]*", value "_"
EndlessDt == << PatternRow("a", "a", <<Star(AllChars \ {"_"})>>, <<Cls({"_"})>>, <<>>) >>

\* the mask "%ORDER%_"
EndlessMask == OrderTag \o <<"_">>

\* caps that allow one match fewer than the limit of matches, and as many
EndlessMaxTries == {MatchLimit - 1, MatchLimit}

EcavInit ==
    /\ ecav \in {EcavCall(text, pattern_dt, <<>>, n) :
                      text \in EcavTexts, pattern_dt \in EcavTables, n \in EcavMaxTries}
                \cup {EcavCall(<< <<"s", "m", "3">> >>, pattern_dt, BadMask, 100) :
                         pattern_dt \in EcavTables}
                \cup {EcavCall(<< <<"_">> >>, EndlessDt, EndlessMask, n) :
                         n \in EndlessMaxTries}
                \cup {EcavCall(<<TokenText>>, pattern_dt, <<>>, 100) :
                         pattern_dt \in EcavTables}
    /\ dec_dt = <<>> /\ n_max_each = 0 /\ dec_type = <<>> /\ dec_grp = <<>>
    /\ dec_grp_type = <<>> /\ max_grp = 0 /\ dec_pc = "idle"
    /\ egs = <<>>
    /\ tf = <<>>
    /\ pgv = <<>> /\ pt = <<>> /\ obs = <<>>

EcavStartAction == ecav.pc = "start" /\ ecav' = EcavStart(ecav)

EcavNextTextAction ==
    ecav.pc = "text" /\ ecav.idx < Len(ecav.text) /\ ecav' = EcavNextText(ecav)

EcavNextPatternAction == ecav.pc = "pattern" /\ ecav' = EcavNextPattern(ecav)

EcavMatchAction == ecav.pc = "while" /\ WhileCond(ecav) /\ ecav' = EcavMatch(ecav)

EcavEndWhileAction == ecav.pc = "while" /\ ~WhileCond(ecav) /\ ecav' = EcavEndWhile(ecav)

EcavOrderAction == ecav.pc = "order" /\ ecav' = EcavOrder(ecav)

EcavReturnAction ==
    ecav.pc = "text" /\ ecav.idx = Len(ecav.text) /\ ecav' = EcavReturn(ecav)

EcavNext ==
    /\ \/ EcavStartAction
       \/ EcavNextTextAction
       \/ EcavNextPatternAction
       \/ EcavMatchAction
       \/ EcavEndWhileAction
       \/ EcavOrderAction
       \/ EcavReturnAction
    /\ UNCHANGED <<dec_vars, egs, tf, pgv, pt, obs>>

SpecECAV == EcavInit /\ [][EcavNext]_vars

(***************************************************************************)
(* utils.normalise_text, gleason_extraction.prepare_text                   *)
(*                                                                         *)
(* The words of the report language are written as single letters:         *)
(*   g  a word that whitelist_gleason_word matches ("gleason")             *)
(*   m  a word for the primary grade          s  for the secondary grade   *)
(*   o  a conjunction (ja|tai|or|och|eller)   f  "fokaalinen syöpä"        *)
(*   p  "score"                               l  "alle"                    *)
(***************************************************************************)

NonDigitSet == AllChars \ DigitSet

\* str.lower()
Lower(chars) ==
    [k \in 1..Len(chars) |->
        IF chars[k] \in Range(UpperChars)
        THEN LowerChars[CHOOSE i \in 1..Len(UpperChars) : UpperChars[i] = chars[k]]
        ELSE chars[k]]

\* x = re.sub(pattern, repl, x) for every [pattern, repl] of subs from the i-th on
RECURSIVE SubEach(_, _, _)
SubEach(subs, i, x) ==
    IF i > Len(subs) THEN x
    ELSE LET y == re_sub(subs[i].pattern, subs[i].repl, x)
         IN  IF y = x THEN SubEach(subs, i + 1, x) ELSE SubEach(subs, i + 1, y)

roman_numerals ==
    << <<"I">>, <<"I", "I">>, <<"I", "I", "I">>, <<"I", "V">>, <<"V">>, <<"V", "I">>,
       <<"V", "I", "I">>, <<"V", "I", "I", "I">>, <<"I", "X">>, <<"X">> >>

\* utils.py:17-28  the substitutions of normalise_text, in order
normalise_subs ==
    << [pattern |-> <<Cls({"\n", "\r"})>>, repl |-> <<" ">>],
       [pattern |-> <<Cls({":", " "}), Star({":", " "})>>, repl |-> <<" ">>],
       [pattern |-> <<Cls({"."}), Cls({"."}), Star({"."})>>, repl |-> <<" ">>],
       [pattern |-> <<Cls({"_"}), Star({"_"})>>, repl |-> <<" ">>],
       [pattern |-> <<Cls({"-"}), Cls({"-"}), Star({"-"})>>, repl |-> <<" ">>],
       [pattern |-> <<Lb(DigitSet), La(LetterSet)>>, repl |-> <<" ">>] >>
    \o [idx \in 1..Len(roman_numerals) |->
           [pattern |-> Lit(<<" ">> \o roman_numerals[idx] \o <<" ">>),
            repl |-> <<" ">> \o Str(idx) \o <<" ">>]]
    \o << [pattern |-> <<Cls({" ", "\n", "\r"}), Star({" ", "\n", "\r"})>>, repl |-> <<" ">>] >>

\* utils.py:16-30
normalise_text(x) == Lower(SubEach(normalise_subs, 1, x))

\* "[ ,-]{0,2}"
optional_word_sep ==
    <<Opt(<<Cls({" ", ",", "-"}), Opt(<<Cls({" ", ",", "-"})>>)>>)>>

whitelist_gleason_word == <<Cls({"g"})>>

\* the gleason word and what may follow it before a value
base_gleason_regex == whitelist_gleason_word \o optional_word_sep

\* gleason_extraction.py:441-448  for pat in rm: x = re.sub(pat, "", x)
rm_false_positive_subs ==
    << [pattern |-> base_gleason_regex \o <<Opt(<<Cls({" "})>>)>>
                    \o Lit(<<"4", " ", "o", " ", "5">>),
        repl |-> <<>>],
       [pattern |-> Lit(<<"f", " ", "(">>) \o <<Star(AllChars \ {")"}), Cls({")"})>>,
        repl |-> <<>>],
       [pattern |-> Lit(<<"(", "g", " ", "p", " ", "6", " ", "o", " ", "l", ")">>),
        repl |-> <<>>] >>

rm_false_positives(x) == SubEach(rm_false_positive_subs, 1, x)

\* "[(][ ]*" + whitelist_gleason_word + "[^0-9]*" + "[5-9][ ]*[-][ ]*([6-9]|(10))" + "[ ]*[)]"
re_field_name_gleason_range ==
    <<Cls({"("}), Star({" "})>> \o whitelist_gleason_word
    \o <<Star(NonDigitSet), Cls({"5", "6", "7", "8", "9"}), Star({" "}), Cls({"-"}), Star({" "}),
         Alt(<< <<Cls({"6", "7", "8", "9"})>>, Lit(<<"1", "0">>) >>),
         Star({" "}), Cls({")"})>>

\* gleason_extraction.py:463-470  the substitutions of prepare_text after
\* rm_false_positives(utils.normalise_text(x)), in order
prepare_subs ==
    << [pattern |-> <<Cls({"("}), Cls(NonDigitSet), Star(NonDigitSet), Cls({")"})>>,
        repl |-> <<" ">>],
       [pattern |-> <<Cls({"("}), Star({" "}), Cls(DigitSet), Star(DigitSet), Star({" "}),
                      Cls({"%"}), Star({" "}), Cls({")"})>>,
        repl |-> <<" ">>],
       [pattern |-> re_field_name_gleason_range, repl |-> <<" ">>],
       [pattern |-> <<Cls({" "}), Star({" "})>>, repl |-> <<" ">>] >>

\* gleason_extraction.py:450-470
prepare_text(x) == SubEach(prepare_subs, 1, rm_false_positives(normalise_text(x)))

\* ---- the calls of prepare_text that are explored ----

\* longest text given to prepare_text
MaxPtLen == 6

\* the characters of the texts given to prepare_text: parentheses, a digit
\* and a percent sign, of which the expressions that prepare_text removes
\* are made
PtAlphabet == {"(", ")", "4", "%"}

PtCall(x) == [x |-> x, once |-> <<>>, twice |-> <<>>, pc |-> "start"]

\* gleason_extraction.py:450-470  the text is prepared
PtPrepare(st) == [st EXCEPT !.pc = "once", !.once = AsSeq(prepare_text(st.x))]

\* gleason_extraction.py:450-470  the prepared text is prepared again
PtPrepareAgain(st) == [st EXCEPT !.pc = "twice", !.twice = AsSeq(prepare_text(st.once))]

PtInit ==
    /\ pt \in {PtCall(x) : x \in SeqsUpTo(PtAlphabet, MaxPtLen)}
    /\ ecav = <<>>
    /\ egs = <<>>
    /\ tf = <<>>
    /\ pgv = <<>> /\ obs = <<>>
    /\ dec_dt = <<>> /\ n_max_each = 0 /\ dec_type = <<>> /\ dec_grp = <<>>
    /\ dec_grp_type = <<>> /\ max_grp = 0 /\ dec_pc = "idle"

PtPrepareAction == pt.pc = "start" /\ pt' = PtPrepare(pt)

PtPrepareAgainAction == pt.pc = "once" /\ pt' = PtPrepareAgain(pt)

PtNext ==
    (PtPrepareAction \/ PtPrepareAgainAction) /\ UNCHANGED <<dec_vars, ecav, egs, tf, pgv, obs>>

SpecPT == PtInit /\ [][PtNext]_vars

(***************************************************************************)
(* gleason_extraction.component_parsing_instructions_by_match_type and     *)
(* gleason_extraction.parse_gleason_value_string_elements                  *)
(*                                                                         *)
(* A warning is the sequence of its messages (the code joins them with     *)
(* "||"); None is the empty sequence.                                      *)
(***************************************************************************)

\* "([6-9]|10)"
re_c == <<Alt(<< <<Cls({"6", "7", "8", "9"})>>, Lit(<<"1", "0">>) >>)>>

\* "(^|[^_+])"
re_nonmask_nonplus_prefix == <<Alt(<< <<Bol>>, <<NotCls({"_", "+"})>> >>)>>

\* "($|(?=[^%0-9]))"
re_nonmask_digit_suffix == <<Alt(<< <<Eol>>, <<La(AllChars \ ({"%"} \cup DigitSet))>> >>)>>

abtc_dt ==
    << PatternRow("a", "", re_nonmask_nonplus_prefix, re_abt, re_plus),
       PatternRow("b", "", re_mask_prefix, re_abt, re_nonmask_digit_suffix),
       PatternRow("t", "", re_plus, re_abt, re_nonmask_digit_suffix),
       PatternRow("c", "", re_nonmask_nonplus_prefix, re_c, re_nonmask_digit_suffix) >>

abc_dt ==
    << PatternRow("a", "", re_nonmask_prefix, re_abt, re_plus),
       PatternRow("b", "", re_mask_prefix, re_abt, <<>>),
       PatternRow("c", "", <<>>, re_c, <<>>) >>

abt_dt ==
    << PatternRow("a", "", re_nonmask_prefix, re_abt, re_plus),
       PatternRow("b", "", re_mask_prefix, re_abt, re_plus),
       PatternRow("t", "", re_mask_prefix, re_abt, <<>>) >>

ac_dt ==
    << PatternRow("a", "", re_nonmask_prefix, re_abt, <<>>),
       PatternRow("c", "", re_nonmask_prefix, re_c, <<>>) >>

a_dt == << PatternRow("a", "", re_nonmask_prefix, re_abt, re_nonmask_digit_suffix) >>

b_dt == << PatternRow("b", "", re_nonmask_prefix, re_abt, re_nonmask_digit_suffix) >>

t_dt == << PatternRow("t", "", re_nonmask_prefix, re_abt, re_nonmask_digit_suffix) >>

c_dt == << PatternRow("c", "", re_nonmask_prefix, re_c, re_nonmask_digit_suffix) >>

\* the keys of the instructions, in the order of the dict
instruction_keys ==
    <<"kw_all_a", "a + b + t = c", "a + b + t", "a + b = c", "a + b", "a...c", "a", "b", "c", "t">>

\* match type |-> <<pattern_dt, n_max_tries_per_pattern>>
component_parsing_instructions_by_match_type ==
    [match_type \in Range(instruction_keys) |->
        CASE match_type = "kw_all_a" -> <<a_dt, 1>>
          [] match_type = "a + b + t = c" -> <<abtc_dt, 10>>
          [] match_type = "a + b + t" -> <<abt_dt, 10>>
          [] match_type = "a + b = c" -> <<abc_dt, 10>>
          [] match_type = "a + b" -> <<ab_dt, 10>>
          [] match_type = "a...c" -> <<ac_dt, 10>>
          [] match_type = "a" -> <<a_dt, 10>>
          [] match_type = "b" -> <<b_dt, 10>>
          [] match_type = "c" -> <<c_dt, 10>>
          [] match_type = "t" -> <<t_dt, 10>>]

\* x[k] < y[k] at the first k where the tuples of integers differ
LexLess(x, y) == \E k \in 1..Len(x) : x[k] < y[k] /\ \A j \in 1..(k - 1) : x[j] = y[j]

\* sort_values: the rows in ascending order of their keys, rows with equal
\* keys in their former order
SortByKeys(rows, keys) ==
    LET Rank(i) == Cardinality({j \in 1..Len(rows) :
                        LexLess(keys[j], keys[i]) \/ (keys[j] = keys[i] /\ j < i)}) + 1
    IN  AsSeq([p \in 1..Len(rows) |-> rows[CHOOSE i \in 1..Len(rows) : Rank(i) = p]])

\* pd.concat(dts): the rows of the tables from the i-th on, one after the other
RECURSIVE Concat(_, _)
Concat(dts, i) == IF i > Len(dts) THEN <<>> ELSE dts[i] \o Concat(dts, i + 1)

\* the indices at which mask is TRUE, ascending
Which(mask) == SelectSeq([k \in 1..Len(mask) |-> k], LAMBDA k : mask[k])

\* the message "!" + match type (in quotes): the values do not fit the match type
MatchTypeMismatchWarning(match_type) == <<"!", match_type>>

\* the message "match type " + match type (in quotes) + " problem"
MatchTypeWarning(match_type) == <<"match type problem", match_type>>

\* mutant: the new message takes the place of the warning
SetWarning(x, w) == <<w>>

\* x + '||' + w if x else w
AddWarning(x, w) == Append(x, w)

\* the string that a warning is in the code: the words of its messages with
\* "||" between the messages
RECURSIVE WarningString(_)
WarningString(x) ==
    IF x = <<>> THEN <<>>
    ELSE IF Len(x) = 1 THEN x[1]
    ELSE x[1] \o <<"||">> \o WarningString(Tail(x))

\* gleason_extraction.py:623  groupby(["pos", "pattern_name"]).cumcount() + 1
DuplicateId(dt, k) ==
    Cardinality({j \in 1..k : /\ dt[j].pos = dt[k].pos
                              /\ dt[j].pattern_name = dt[k].pattern_name})

\* the (pos, duplicate_id) of the rows wh of dt
PivotKeys(dt, wh) ==
    AsSeq([i \in 1..Len(wh) |-> <<dt[wh[i]].pos, DuplicateId(dt, wh[i])>>])

\* gleason_extraction.py:631  the index of the pivot table: the distinct
\* (pos, duplicate_id), sorted
PivotIndex(dt) ==
    SortByKeys(PivotKeys(dt, Which([k \in 1..Len(dt) |->
                   \A j \in 1..(k - 1) : <<dt[j].pos, DuplicateId(dt, j)>>
                                         # <<dt[k].pos, DuplicateId(dt, k)>>])),
               PivotKeys(dt, Which([k \in 1..Len(dt) |->
                   \A j \in 1..(k - 1) : <<dt[j].pos, DuplicateId(dt, j)>>
                                         # <<dt[k].pos, DuplicateId(dt, k)>>])))

\* gleason_extraction.py:624-631  the cell of the pivot table at index ix
\* in the column name: the value as an int, nan where there is none
Cell(dt, ix, name) ==
    IF \E k \in 1..Len(dt) : /\ dt[k].pos = ix[1] /\ DuplicateId(dt, k) = ix[2]
                             /\ dt[k].pattern_name = name
    THEN ParseInt(dt[CHOOSE k \in 1..Len(dt) :
                        /\ dt[k].pos = ix[1] /\ DuplicateId(dt, k) = ix[2]
                        /\ dt[k].pattern_name = name].value)
    ELSE NaN

\* dt[names].isna().any(axis=1) at index ix
HasNa(dt, ix, names) == \E name \in names : Cell(dt, ix, name) = NaN

\* gleason_extraction.py:625-626
PatternNames(dt) == {dt[k].pattern_name : k \in 1..Len(dt)}

\* gleason_extraction.py:637-650  the warning of the row at index ix
PivotWarning(dt, index, instructions_dt, match_type, ix) ==
    IF PatternNames(dt) = PatternNames(instructions_dt)
    THEN IF ~\E i \in 1..Len(index) : HasNa(dt, index[i], PatternNames(instructions_dt))
         THEN <<>>
         ELSE IF HasNa(dt, ix, PatternNames(instructions_dt))
         THEN <<MatchTypeMismatchWarning(match_type), MatchTypeWarning(match_type)>>
         ELSE <<MatchTypeWarning(match_type)>>
    ELSE IF HasNa(dt, ix, PatternNames(dt))
         THEN <<MatchTypeWarning(match_type), MatchTypeMismatchWarning(match_type)>>
         ELSE <<MatchTypeWarning(match_type)>>

\* gleason_extraction.py:631-650  the rows of the pivot table with index index
PivotRows(dt, index, idx_list, instructions_dt, match_type) ==
    AsSeq([i \in 1..Len(index) |->
        [pos |-> idx_list[index[i][1] + 1] - 1,
         match_type |-> match_type,
         a |-> Cell(dt, index[i], "a"), b |-> Cell(dt, index[i], "b"),
         t |-> Cell(dt, index[i], "t"), c |-> Cell(dt, index[i], "c"),
         warning |-> PivotWarning(dt, index, instructions_dt, match_type, index[i])]])

\* gleason_extraction.py:622-650  res: the frame that
\* extract_context_affixed_values returned or raised from
ParseExtracted(res, idx_list, instructions_dt, match_type) ==
    IF res.pc = "raise" THEN [err |-> res.err, dt |-> <<>>]
    ELSE [err |-> "none",
          dt |-> PivotRows(res.extr_dt, PivotIndex(res.extr_dt), idx_list,
                           instructions_dt, match_type)]

\* gleason_extraction.py:620-650
ParseIndexed(value_strings, idx_list, instructions, match_type) ==
    ParseExtracted(
        extract_context_affixed_values(
            AsSeq([i \in 1..Len(idx_list) |->
                re_sub(<<Cls({"(", ")"})>>, <<>>, value_strings[idx_list[i]])]),
            instructions[1], <<>>, instructions[2]),
        idx_list, instructions[1], match_type)

\* gleason_extraction.py:616-650  the rows of one match type
ParseMatchType(value_strings, match_types, match_type) ==
    ParseIndexed(value_strings,
                 Which([k \in 1..Len(match_types) |-> match_types[k] = match_type]),
                 component_parsing_instructions_by_match_type[match_type], match_type)

\* mutant: b is left as it was parsed
MirrorNothing(row) == row

\* gleason_extraction.py:661  b = a for kw_all_a
MirrorKwAllA(row) == IF row.match_type = "kw_all_a" THEN [row EXCEPT !.b = row.a] ELSE row

\* gleason_extraction.py:660-661
MirrorEach(dt) == AsSeq([k \in 1..Len(dt) |-> MirrorKwAllA(dt[k])])

\* gleason_extraction.py:663  sort_values(by = ["pos", "temp_index"])
SortByPos(dt) == SortByKeys(dt, [k \in 1..Len(dt) |-> <<dt[k].pos>>])

\* gleason_extraction.py:652-663  dts: the tables of the match types, each
\* with the error its extraction raised
CombineParsed(dts) ==
    IF \E k \in 1..Len(dts) : dts[k].err # "none"
    THEN [err |-> dts[CHOOSE k \in 1..Len(dts) :
                        /\ dts[k].err # "none"
                        /\ \A j \in 1..(k - 1) : dts[j].err = "none"].err,
          dt |-> <<>>]
    \* parsed_dt is still None at line 657
    ELSE IF \A k \in 1..Len(dts) : dts[k].dt = <<>>
    THEN [err |-> "TypeError: 'NoneType' object is not subscriptable", dt |-> <<>>]
    ELSE [err |-> "none",
          dt |-> SortByPos(MirrorEach(Concat(AsSeq([i \in 1..Len(dts) |-> dts[i].dt]), 1)))]

\* gleason_extraction.py:603-663  the tables of the match types in the order
\* of the instruction keys: the order of the match types does not show in
\* the result, which is sorted by pos
parse_gleason_value_string_elements(value_strings, match_types) ==
    IF Len(value_strings) # Len(match_types)
    THEN [err |-> "ValueError: Lengths do not match", dt |-> <<>>]
    ELSE CombineParsed(AsSeq([i \in 1..Len(instruction_keys) |->
             IF instruction_keys[i] \in Range(instruction_keys) \cap Range(match_types)
             THEN ParseMatchType(value_strings, match_types, instruction_keys[i])
             ELSE [err |-> "none", dt |-> <<>>]]))

\* ---- the calls of parse_gleason_value_string_elements that are explored ----

\* most value strings in one call
MaxValueStrings == 2

\* a value string with its match type: additions with and without their
\* second value, with alternatives and in parentheses, sums that are right,
\* wrong and incomplete, a lone grade for kw_all_a, a score, a score given as
\* a grade, and a match type that the instructions do not know
PgvItems ==
    { << <<"3", "+", "4">>, "a + b" >>,
      << <<"3", "+">>, "a + b" >>,
      << <<"3", "+", "4", "/", "4", "+", "3">>, "a + b" >>,
      << <<"(", "3", "+", "4", ")">>, "a + b" >>,
      << <<"3", "+", "4", "=", "7">>, "a + b = c" >>,
      << <<"3", "+", "4", "=", "8">>, "a + b = c" >>,
      << <<"3", "+", "=", "7">>, "a + b = c" >>,
      << <<"3">>, "kw_all_a" >>,
      << <<"1", "0">>, "c" >>,
      << <<"7">>, "a" >>,
      << <<"3">>, "nan" >> }

PgvCall(value_strings, match_types) ==
    [value_strings |-> value_strings, match_types |-> match_types,
     dt |-> <<>>, err |-> "none", pc |-> "start"]

\* gleason_extraction.py:603-663  res: what the function returned or raised
PgvDone(st, res) ==
    IF res.err # "none" THEN [st EXCEPT !.pc = "raise", !.err = res.err]
    ELSE [st EXCEPT !.pc = "return", !.dt = res.dt]

\* gleason_extraction.py:603-663
PgvStep(st) == PgvDone(st, parse_gleason_value_string_elements(st.value_strings, st.match_types))

PgvInit ==
    /\ pgv \in {PgvCall([k \in 1..Len(items) |-> items[k][1]],
                        [k \in 1..Len(items) |-> items[k][2]]) :
                    items \in SeqsUpTo(PgvItems, MaxValueStrings)}
               \cup {PgvCall(<< <<"3", "+", "4">> >>, <<>>)}
    /\ ecav = <<>>
    /\ egs = <<>>
    /\ tf = <<>>
    /\ pt = <<>> /\ obs = <<>>
    /\ dec_dt = <<>> /\ n_max_each = 0 /\ dec_type = <<>> /\ dec_grp = <<>>
    /\ dec_grp_type = <<>> /\ max_grp = 0 /\ dec_pc = "idle"

PgvRaiseAction == pgv.pc = "start" /\ PgvStep(pgv).pc = "raise" /\ pgv' = PgvStep(pgv)

PgvReturnAction == pgv.pc = "start" /\ PgvStep(pgv).pc = "return" /\ pgv' = PgvStep(pgv)

PgvNext == (PgvRaiseAction \/ PgvReturnAction) /\ UNCHANGED <<dec_vars, ecav, egs, tf, pt, obs>>

SpecPGV == PgvInit /\ [][PgvNext]_vars

(***************************************************************************)
(* utils.typed_format_dt_to_standard_format_dt                             *)
(***************************************************************************)

\* utils.py:127-142  the while loop of determine_element_combinations: the
\* column grp when no grp is null any more
RECURSIVE DecLoop(_, _, _, _)
DecLoop(type, grp, mg, nmax) ==
    IF NaN \notin Range(grp) THEN grp
    ELSE LET wh_first == WhFirst(grp)
             found == SearchCombination(type, wh_first, 1, nmax)
             r == DecWindow(Len(type), wh_first,
                            Len(allowed_combinations[found[1]]) * found[2])
         IN  DecLoop(type, AsSeq(AssignGrp(grp, r, found[2], mg)),
                     NextMaxGrp(mg, found[2]), nmax)

\* the a, b, t, c of a row
Values(row) == [r \in RoleSet |-> row[r]]

\* the column grp of determine_element_combinations(dt, n_max_each = nmax),
\* for a dt that passes its input checks
determine_element_combinations(dt, nmax) ==
    DecLoop(AsSeq([k \in 1..Len(dt) |-> find_non_na_elem(Values(dt[k]))]),
            AsSeq([k \in 1..Len(dt) |-> NaN]), 0, nmax)

\* utils.py:211  the match types that the standard format knows (and nan)
standard_match_types ==
    {"a", "b", "c", "t", "a + b", "a + b = c", "a + b + t = c", "a + b + t", "kw_all_a"}

\* utils.py:228  dt[["match_type"]].isin(["a", "b", "t", "c"])
is_single_elem_match(row) == row.match_type \in {"a", "b", "t", "c"}

\* mutant: only the first row of a group is kept
CombineGroupsFirstRow(sub_dt) ==
    <<[sub_dt[1] EXCEPT
          !.a = IF \E k \in 1..Len(sub_dt) : sub_dt[k].a # NaN
                THEN sub_dt[CHOOSE k \in 1..Len(sub_dt) :
                         sub_dt[k].a # NaN /\ \A j \in 1..(k - 1) : sub_dt[j].a = NaN].a
                ELSE NaN,
          !.b = IF \E k \in 1..Len(sub_dt) : sub_dt[k].b # NaN
                THEN sub_dt[CHOOSE k \in 1..Len(sub_dt) :
                         sub_dt[k].b # NaN /\ \A j \in 1..(k - 1) : sub_dt[j].b = NaN].b
                ELSE NaN,
          !.c = IF \E k \in 1..Len(sub_dt) : sub_dt[k].c # NaN
                THEN sub_dt[CHOOSE k \in 1..Len(sub_dt) :
                         sub_dt[k].c # NaN /\ \A j \in 1..(k - 1) : sub_dt[j].c = NaN].c
                ELSE NaN]>>

\* utils.py:246-265  one group of rows becomes n rows: the k-th row holds the
\* k-th non-null value of every role
combine_groups(sub_dt) ==
    LET Col(role) == LET wh == Which([k \in 1..Len(sub_dt) |-> sub_dt[k][role] # NaN])
                     IN  AsSeq([i \in 1..Len(wh) |-> sub_dt[wh[i]][role]])
        n == Max(Max(Len(Col("a")), Len(Col("b"))), Max(Len(Col("t")), Len(Col("c"))))
        Value(role, k) == IF k <= Len(Col(role)) THEN Col(role)[k] ELSE NaN
    IN  AsSeq([k \in 1..n |-> [sub_dt[k] EXCEPT !.a = Value("a", k), !.b = Value("b", k),
                                                !.t = Value("t", k), !.c = Value("c", k)]])

\* the columns of the result
StandardRow(row) ==
    [text_id |-> row.text_id, obs_id |-> row.obs_id, a |-> row.a, b |-> row.b,
     t |-> row.t, c |-> row.c, warning |-> row.warning]

\* sort_values(by = ["text_id", "obs_id"])
SortByIds(dt) == SortByKeys(dt, [k \in 1..Len(dt) |-> <<dt[k].text_id, dt[k].obs_id>>])

\* utils.py:228-230  the rows of the single-element match types, sorted
ElemDt(dt) == SortByIds(SelectSeq(dt, is_single_elem_match))

\* utils.py:233-240  a new run of sequential observations starts where
\* diff(obs_id) > 1: the number of the run of row k
SeqGrp(elem_dt, k) ==
    Cardinality({j \in 2..k : elem_dt[j].obs_id - elem_dt[j - 1].obs_id > 1})

\* mutant: the solitary rows of one text are one processing group
SameTextOnly(elem_dt, j, k) == elem_dt[j].text_id = elem_dt[k].text_id

\* utils.py:242  the processing group is the pair (text_id, run)
SameProcessingGrp(elem_dt, j, k) ==
    elem_dt[j].text_id = elem_dt[k].text_id /\ SeqGrp(elem_dt, j) = SeqGrp(elem_dt, k)

\* the rows wh of dt
RowsAt(dt, wh) == AsSeq([q \in 1..Len(wh) |-> dt[wh[q]]])

\* utils.py:243  groupby(".__processing_grp").apply(determine_element_combinations):
\* the column grp of the processing groups whose first rows are firsts
GrpOfEach(elem_dt, firsts) ==
    Concat(AsSeq([i \in 1..Len(firsts) |->
               determine_element_combinations(
                   RowsAt(elem_dt, Which([j \in 1..Len(elem_dt) |->
                                      SameProcessingGrp(elem_dt, j, firsts[i])])), 6)]), 1)

\* utils.py:243  the column grp
GrpColumn(elem_dt) ==
    GrpOfEach(elem_dt, Which([k \in 1..Len(elem_dt) |->
                           \A j \in 1..(k - 1) : ~SameProcessingGrp(elem_dt, j, k)]))

\* utils.py:244  the pair (grp, processing group)
SameGrp(elem_dt, grp, j, k) == SameProcessingGrp(elem_dt, j, k) /\ grp[j] = grp[k]

\* utils.py:266  groupby(".__processing_grp").apply(combine_groups); firsts:
\* the first row of every group
CombineEach(elem_dt, grp, firsts) ==
    Concat(AsSeq([i \in 1..Len(firsts) |->
               combine_groups(RowsAt(elem_dt, Which([j \in 1..Len(elem_dt) |->
                                         SameGrp(elem_dt, grp, j, firsts[i])])))]), 1)

\* utils.py:244-266
CombineElems(elem_dt, grp) ==
    CombineEach(elem_dt, grp, Which([k \in 1..Len(elem_dt) |->
                                  \A j \in 1..(k - 1) : ~SameGrp(elem_dt, grp, j, k)]))

\* utils.py:268-270
\* mutant: the rows are returned as they were concatenated
StandardOutAsConcatenated(rows) == AsSeq([k \in 1..Len(rows) |-> StandardRow(rows[k])])

StandardOut(rows) == SortByIds(AsSeq([k \in 1..Len(rows) |-> StandardRow(rows[k])]))

\* utils.py:227-271  elem_dt: the sorted rows of the single-element match types
CombineTyped(dt, elem_dt) ==
    \* utils.py:95-96, raised by determine_element_combinations
    IF \E k \in 1..Len(elem_dt) : NotNullCount(Values(elem_dt[k])) # 1
    THEN [err |-> "ValueError: There has to be exactly one non-nan a/b/t/c value per row",
          out |-> <<>>]
    ELSE [err |-> "none",
          out |-> StandardOut(CombineElems(elem_dt, GrpColumn(elem_dt))
                              \o SelectSeq(dt, LAMBDA row : ~is_single_elem_match(row)))]

\* utils.py:207-225  the error of the first check that fails, "none" if none does
TypedFormatError(dt) ==
    IF \E i, j \in 1..Len(dt) : i < j /\ dt[i].obs_id = dt[j].obs_id
    THEN "ValueError: obs_id need to be unique"
    ELSE IF \E k \in 1..Len(dt) : dt[k].match_type \notin standard_match_types
    THEN "ValueError: Match type need to be among"
    ELSE IF \E k \in 1..Len(dt) : NotNullCount(Values(dt[k])) = 0
    THEN "ValueError: There has to be at least one non-nan a/b/t/c value per row"
    ELSE "none"

\* utils.py:205-271
typed_format_dt_to_standard_format_dt(dt) ==
    IF TypedFormatError(dt) # "none" THEN [err |-> TypedFormatError(dt), out |-> <<>>]
    ELSE CombineTyped(dt, ElemDt(dt))

\* ---- the calls of typed_format_dt_to_standard_format_dt that are explored ----

\* most rows of a dt given to typed_format_dt_to_standard_format_dt
MaxTfRows == 4

\* the match types of the rows: single-element ones and an addition
TfMatchTypes == {"a", "b", "c", "a + b"}

\* how a row follows the row before it: with the next obs_id in the same
\* text, after a gap in obs_id in the same text, with the next obs_id in the
\* next text
TfSteps == {"next", "gap", "text"}

\* the row of match type match_type with the value v under its roles
TfRow(match_type, text_id, obs_id, v) ==
    [text_id |-> text_id, obs_id |-> obs_id, match_type |-> match_type,
     a |-> IF match_type \in {"a", "a + b"} THEN v ELSE NaN,
     b |-> IF match_type \in {"b", "a + b"} THEN v ELSE NaN,
     t |-> IF match_type = "t" THEN v ELSE NaN,
     c |-> IF match_type = "c" THEN v ELSE NaN,
     warning |-> <<>>]

\* the dt of the rows items, keyed by text_id and obs_id; the k-th row
\* holds the value k
TfTable(items) ==
    AsSeq([k \in 1..Len(items) |->
        TfRow(items[k].match_type,
              Cardinality({j \in 2..k : items[j].step = "text"}),
              k + Cardinality({j \in 2..k : items[j].step = "gap"}),
              k)])

\* dts that a check of utils.py:207-214 or of utils.py:95-96 rejects: a
\* duplicate obs_id, an unknown match type, a row without a value, a
\* single-element row with two values (this one passes the checks of
\* typed_format_dt_to_standard_format_dt and is rejected by
\* determine_element_combinations)
TfBadTables ==
    { << TfRow("a", 0, 1, 1), TfRow("b", 0, 1, 2) >>,
      << TfRow("a...c", 0, 1, 1) >>,
      << [TfRow("a", 0, 1, 1) EXCEPT !.a = NaN] >>,
      << [TfRow("a", 0, 1, 1) EXCEPT !.b = 2] >> }

\* the frame at the call
TfCall(dt) == [dt |-> dt, out |-> <<>>, err |-> "none", pc |-> "start"]

\* utils.py:205-271  res: what the function returned or raised
TfDone(st, res) ==
    IF res.err # "none" THEN [st EXCEPT !.pc = "raise", !.err = res.err]
    ELSE [st EXCEPT !.pc = "return", !.out = res.out]

\* utils.py:146-271
TfStep(st) == TfDone(st, typed_format_dt_to_standard_format_dt(st.dt))

TfInit ==
    /\ tf \in {TfCall(TfTable(items)) :
                  items \in UNION {[1..n -> [match_type : TfMatchTypes, step : TfSteps]] :
                                      n \in 0..MaxTfRows}}
              \cup {TfCall(dt) : dt \in TfBadTables}
    /\ ecav = <<>>
    /\ egs = <<>>
    /\ pgv = <<>> /\ pt = <<>> /\ obs = <<>>
    /\ dec_dt = <<>> /\ n_max_each = 0 /\ dec_type = <<>> /\ dec_grp = <<>>
    /\ dec_grp_type = <<>> /\ max_grp = 0 /\ dec_pc = "idle"

\* utils.py:207-225  a check raises
TfRaiseAction == tf.pc = "start" /\ TypedFormatError(tf.dt) # "none" /\ tf' = TfStep(tf)

\* utils.py:227-271  the checks pass: the rows are combined and returned (or
\* determine_element_combinations raises)
TfCombineAction == tf.pc = "start" /\ TypedFormatError(tf.dt) = "none" /\ tf' = TfStep(tf)

TfNext == (TfRaiseAction \/ TfCombineAction) /\ UNCHANGED <<dec_vars, ecav, egs, pgv, pt, obs>>

SpecTF == TfInit /\ [][TfNext]_vars

(***************************************************************************)
(* gleason_extraction.extract_gleason_scores                               *)
(***************************************************************************)

\* the frame at the call; are_lists: texts and text_ids are lists
EgsCall(texts, text_ids, format, pattern_dt, are_lists) ==
    [texts |-> texts, text_ids |-> text_ids, format |-> format, pattern_dt |-> pattern_dt,
     are_lists |-> are_lists, prepared |-> <<>>, extr_dt |-> <<>>, parsed_dt |-> <<>>,
     out |-> <<>>, pc |-> "start", err |-> "none"]

\* gleason_extraction.py:710-711
IdCheckUnique(st) ==
    IF Cardinality(Range(st.text_ids)) # Len(st.text_ids)
    THEN "ValueError: text ids must be unique" ELSE "none"

\* mutant: duplicate text ids are let through
IdCheckNone(st) == "none"

IdCheck(st) == IdCheckUnique(st)

\* gleason_extraction.py:705-724  the error of the first check that fails, "none" if none does
EgsValidationError(st) ==
    IF ~st.are_lists THEN "TypeError: Only list is supported for texts and textids"
    ELSE IF IdCheck(st) # "none" THEN IdCheck(st)
    ELSE IF st.format # "standard" THEN "ValueError: Only standard format is implemented"
    ELSE IF Len(st.texts) # Len(st.text_ids)
    THEN "ValueError: Number of texts and ids do not match"
    ELSE IF st.format \notin {"standard", "typed"} THEN "ValueError: Format not supported"
    ELSE IF \E k \in 1..Len(st.pattern_dt) :
                st.pattern_dt[k].match_type \notin Range(instruction_keys)
    THEN "ValueError: Match type did not exist in instructions"
    ELSE "none"

\* gleason_extraction.py:705-724
EgsValidate(st) ==
    IF EgsValidationError(st) # "none"
    THEN [st EXCEPT !.pc = "raise", !.err = EgsValidationError(st)]
    ELSE [st EXCEPT !.pc = "prepare"]

\* gleason_extraction.py:726
EgsPrepare(st) ==
    [st EXCEPT !.pc = "extract",
               !.prepared = [k \in 1..Len(st.texts) |->
                    IF Truthy(st.texts[k]) THEN prepare_text(st.texts[k]) ELSE None]]

\* dict(zip(pattern_dt.pattern_name, pattern_dt.match_type))[pattern_name]:
\* the match type of the last row with that name
MatchTypeOf(pattern_dt, pattern_name) ==
    LET wh == Which([k \in 1..Len(pattern_dt) |-> pattern_dt[k].pattern_name = pattern_name])
    IN  pattern_dt[wh[Len(wh)]].match_type

\* mutant: one counter for all texts
ObsIdOverAllTexts(dt, k) == k + dt[k].text_id * 1000

\* groupby("text_id").cumcount() + 1, plus text_id * 1000
ObsId(dt, k) ==
    Cardinality({j \in 1..k : dt[j].text_id = dt[k].text_id}) + dt[k].text_id * 1000

\* mutant: the text ids are attached in reverse
WithIdsReversed(extr_dt, pattern_dt, text_ids) ==
    AsSeq([k \in 1..Len(extr_dt) |->
        [pos |-> extr_dt[k].pos, pattern_name |-> extr_dt[k].pattern_name,
         value |-> extr_dt[k].value,
         match_type |-> MatchTypeOf(pattern_dt, extr_dt[k].pattern_name),
         text_id |-> text_ids[Len(text_ids) - extr_dt[k].pos]]])

\* gleason_extraction.py:729-731  the columns match_type and text_id
WithIds(extr_dt, pattern_dt, text_ids) ==
    AsSeq([k \in 1..Len(extr_dt) |->
        [pos |-> extr_dt[k].pos, pattern_name |-> extr_dt[k].pattern_name,
         value |-> extr_dt[k].value,
         match_type |-> MatchTypeOf(pattern_dt, extr_dt[k].pattern_name),
         text_id |-> text_ids[extr_dt[k].pos + 1]]])

\* gleason_extraction.py:733-734  the column obs_id
WithObsIds(dt) ==
    AsSeq([k \in 1..Len(dt) |->
        [pos |-> dt[k].pos, pattern_name |-> dt[k].pattern_name, value |-> dt[k].value,
         match_type |-> dt[k].match_type, text_id |-> dt[k].text_id,
         obs_id |-> ObsId(dt, k)]])

\* gleason_extraction.py:728-734  res: the frame that
\* extract_context_affixed_values returned or raised from
\* (its pattern_dt is the table of the caller, with the column it wrote)
EgsExtracted(st, res) ==
    IF res.pc = "raise"
    THEN [st EXCEPT !.pc = "raise", !.err = res.err, !.pattern_dt = AsSeq(res.pattern_dt)]
    ELSE [st EXCEPT !.pc = "parse",
                    !.pattern_dt = AsSeq(res.pattern_dt),
                    !.extr_dt = WithObsIds(WithIds(res.extr_dt, st.pattern_dt, st.text_ids))]

\* gleason_extraction.py:728-734
EgsExtract(st) ==
    EgsExtracted(st, extract_context_affixed_values(st.prepared, st.pattern_dt, <<>>, 100))

\* gleason_extraction.py:737-743  res: what parse_gleason_value_string_elements
\* returned or raised
EgsParsed(st, res) ==
    IF res.err # "none" THEN [st EXCEPT !.pc = "raise", !.err = res.err]
    ELSE [st EXCEPT !.pc = "filter",
                    !.parsed_dt = [k \in 1..Len(res.dt) |->
                        [pos |-> res.dt[k].pos, match_type |-> res.dt[k].match_type,
                         a |-> res.dt[k].a, b |-> res.dt[k].b, t |-> res.dt[k].t,
                         c |-> res.dt[k].c, warning |-> res.dt[k].warning,
                         text_id |-> st.extr_dt[res.dt[k].pos + 1].text_id,
                         obs_id |-> st.extr_dt[res.dt[k].pos + 1].obs_id,
                         orig_obs_id |-> NaN]]]

\* gleason_extraction.py:736-743
EgsParse(st) ==
    EgsParsed(st, parse_gleason_value_string_elements(
                      [k \in 1..Len(st.extr_dt) |-> st.extr_dt[k].value],
                      [k \in 1..Len(st.extr_dt) |-> st.extr_dt[k].match_type]))

\* gleason_extraction.py:744  the rows whose values are all in range (or nan)
InRange(row) ==
    /\ row.a \in {2, 3, 4, 5, NaN}
    /\ row.b \in {2, 3, 4, 5, NaN}
    /\ row.t \in {2, 3, 4, 5, NaN}
    /\ row.c \in {4, 5, 6, 7, 8, 9, 10, NaN}

\* gleason_extraction.py:744
EgsFilter(st) == [st EXCEPT !.pc = "standard", !.parsed_dt = SelectSeq(st.parsed_dt, InRange)]

\* gleason_extraction.py:746-748  orig_obs_id, and obs_id numbered anew
Renumbered(dt) ==
    AsSeq([k \in 1..Len(dt) |->
              [dt[k] EXCEPT !.orig_obs_id = dt[k].obs_id, !.obs_id = ObsId(dt, k)]])

\* gleason_extraction.py:750-751  res: what typed_format_dt_to_standard_format_dt
\* returned or raised
EgsStandardised(st, res) ==
    IF res.err # "none" THEN [st EXCEPT !.pc = "raise", !.err = res.err]
    ELSE [st EXCEPT !.pc = "warn", !.parsed_dt = Renumbered(st.parsed_dt), !.out = res.out]

\* gleason_extraction.py:745-751
EgsStandard(st) ==
    EgsStandardised(st, typed_format_dt_to_standard_format_dt(Renumbered(st.parsed_dt)))

\* "a + b != c"
score_warning == <<"a + b != c">>

\* mutant: only a sum above the score is marked
ScoreMaskAbove(row) == row.a # NaN /\ row.b # NaN /\ row.c # NaN /\ row.a + row.b > row.c

\* gleason_extraction.py:755
ScoreMask(row) == row.a # NaN /\ row.b # NaN /\ row.c # NaN /\ row.a + row.b # row.c

\* gleason_extraction.py:753-760
EgsWarn(st) ==
    [st EXCEPT !.pc = "return",
               !.out = [k \in 1..Len(st.out) |->
                    IF ScoreMask(st.out[k])
                    THEN [st.out[k] EXCEPT !.warning = AddWarning(st.out[k].warning, score_warning)]
                    ELSE st.out[k]]]

\* one step of the function
EgsStep(st) ==
    CASE st.pc = "start" -> EgsValidate(st)
      [] st.pc = "prepare" -> EgsPrepare(st)
      [] st.pc = "extract" -> EgsExtract(st)
      [] st.pc = "parse" -> EgsParse(st)
      [] st.pc = "filter" -> EgsFilter(st)
      [] st.pc = "standard" -> EgsStandard(st)
      [] st.pc = "warn" -> EgsWarn(st)

\* the whole call: the frame at return or raise
RECURSIVE EgsRun(_)
EgsRun(st) == IF st.pc \in {"return", "raise"} THEN st ELSE EgsRun(EgsStep(st))

\* ---- the calls of extract_gleason_scores that are explored ----

\* most texts in one call
MaxTexts == 2

\* "([^0-9]|$)"
default_regex_suffix == <<Alt(<< <<NotCls(DigitSet)>>, <<Eol>> >>)>>

\* "[ ]?[+][ ]?"
plus == <<Opt(<<Cls({" "})>>), Cls({"+"}), Opt(<<Cls({" "})>>)>>

\* "[3-5]"
score_a_or_b == <<Cls({"3", "4", "5"})>>

\* "(10|[6-9])"
score_c == <<Alt(<< Lit(<<"1", "0">>), <<Cls({"6", "7", "8", "9"})>> >>)>>

a_plus_b == score_a_or_b \o plus \o score_a_or_b

\* x + "(( | / |/| tai | ja | eller | och | and | or |[ ]?-[ ]?)" + x + ")*"
multiple_alternative_value_matches(x) ==
    x \o <<GroupStar(<<Alt(<< Lit(<<" ">>), Lit(<<" ", "/", " ">>), Lit(<<"/">>),
                              Lit(<<" ", "o", " ">>),
                              <<Opt(<<Cls({" "})>>), Cls({"-"}), Opt(<<Cls({" "})>>)>> >>)>>
                   \o x)>>

\* the rows "a + b", "kw_b", "kw_a" and "kw_c" of fcr_pattern_dt, in its order,
\* with the words of their prefixes written as single letters
FcrDt ==
    << PatternRow("a + b", "a + b", base_gleason_regex,
                  multiple_alternative_value_matches(a_plus_b), default_regex_suffix),
       PatternRow("kw_b", "b", <<Cls({"s"})>> \o optional_word_sep,
                  multiple_alternative_value_matches(score_a_or_b), default_regex_suffix),
       PatternRow("kw_a", "a", <<Cls({"m"})>> \o optional_word_sep,
                  multiple_alternative_value_matches(score_a_or_b), default_regex_suffix),
       PatternRow("kw_c", "c", base_gleason_regex,
                  multiple_alternative_value_matches(score_c), default_regex_suffix) >>

\* a table of the caller with a rule of the match type "a...c", which the
\* instructions know (gleason_extraction.py:540)
AcPatternDt ==
    FcrDt \o << PatternRow("a...c", "a...c", base_gleason_regex,
                           score_a_or_b \o Lit(<<" ">>) \o score_c, default_regex_suffix) >>

\* a table of the caller with a rule of a match type that the instructions do not know
UnknownPatternDt ==
    FcrDt \o << PatternRow("kw_d", "d", <<Cls({"x"})>>, score_a_or_b, default_regex_suffix) >>

EgsTables == {FcrDt, AcPatternDt, UnknownPatternDt}

\* a table of the caller with a rule of the match type "a + b" whose value
\* may end after the plus
OpenPlusPatternDt ==
    << PatternRow("a + b", "a + b", base_gleason_regex,
                  score_a_or_b \o <<Cls({"+"}), Opt(score_a_or_b)>>, default_regex_suffix) >>

\* texts for OpenPlusPatternDt: an addition, and one without its second value
EgsOpenPlusTexts == { <<"g", "3", "+", "4">>, <<"g", "3", "+">> }

\* a table of the caller with a rule of the match type "a + b" whose values
\* may be grades from 2 on, as the filter of gleason_extraction.py:744 allows
WidePlusPatternDt ==
    << PatternRow("a + b", "a + b", base_gleason_regex,
                  <<Cls({"2", "3", "4", "5"}), Cls({"+"}), Cls({"2", "3", "4", "5"})>>,
                  default_regex_suffix) >>

\* a table of the caller with a rule of the match type "a + b = c" whose
\* value may lack the second grade
OpenSumPatternDt ==
    << PatternRow("a + b = c", "a + b = c", base_gleason_regex,
                  score_a_or_b \o <<Cls({"+"}), Opt(score_a_or_b), Cls({"="})>> \o score_c,
                  default_regex_suffix) >>

\* texts for OpenSumPatternDt: a wrong sum, and a sum without its second grade
EgsOpenSumTexts ==
    { <<"g", "3", "+", "4", "=", "8">>, <<"g", "3", "+", "=", "7">> }

\* texts for WidePlusPatternDt: an addition with the grade 2, and one without
EgsWidePlusTexts == { <<"g", "3", "+", "2">>, <<"g", "4", "+", "3">> }

\* texts: None, "", a text without a value, an addition, two keyword values
\* in a row, a score sum in upper case, a grade and a score sum, two keyword
\* values followed by an addition, by the right score sum and by a wrong one
EgsSampleTexts ==
    { None,
      <<>>,
      <<"x">>,
      <<"g", "3", "+", "4">>,
      <<"m", "3", "s", "4">>,
      <<"G", "7">>,
      <<"g", "3", ".", ".", ".", "7">>,
      <<"m", "3", "s", "4", " ", "g", "4", "+", "5">>,
      <<"m", "3", "s", "4", " ", "g", "7">>,
      <<"m", "3", "s", "4", " ", "g", "8">> }

\* text_ids for n texts: ascending, descending, with a duplicate, one too
\* many and one too few
EgsTextIds(n) ==
    { [k \in 1..n |-> k], [k \in 1..n |-> n + 1 - k], [k \in 1..n |-> (k + 1) \div 2],
      [k \in 1..(n + 1) |-> k], [k \in 1..Max(n - 1, 0) |-> k] }

EgsInit ==
    /\ egs \in {EgsCall(texts, text_ids, "standard", pattern_dt, TRUE) :
                    texts \in SeqsUpTo(EgsSampleTexts, MaxTexts),
                    text_ids \in UNION {EgsTextIds(n) : n \in 0..MaxTexts},
                    pattern_dt \in EgsTables}
               \cup {EgsCall(<< <<"g", "3", "+", "4">> >>, <<1>>, format, FcrDt, are_lists) :
                        format \in {"standard", "typed", "other"}, are_lists \in BOOLEAN}
               \cup {EgsCall(texts, [k \in 1..Len(texts) |-> k], "standard",
                              OpenPlusPatternDt, TRUE) :
                        texts \in SeqsUpTo(EgsOpenPlusTexts, MaxTexts)}
               \cup {EgsCall(texts, [k \in 1..Len(texts) |-> k], "standard",
                              WidePlusPatternDt, TRUE) :
                        texts \in SeqsUpTo(EgsWidePlusTexts, MaxTexts)}
               \cup {EgsCall(texts, [k \in 1..Len(texts) |-> k], "standard",
                              OpenSumPatternDt, TRUE) :
                        texts \in SeqsUpTo(EgsOpenSumTexts, MaxTexts)}
    /\ ecav = <<>>
    /\ tf = <<>>
    /\ pgv = <<>> /\ pt = <<>> /\ obs = <<>>
    /\ dec_dt = <<>> /\ n_max_each = 0 /\ dec_type = <<>> /\ dec_grp = <<>>
    /\ dec_grp_type = <<>> /\ max_grp = 0 /\ dec_pc = "idle"

EgsRaiseAction ==
    egs.pc = "start" /\ EgsValidationError(egs) # "none" /\ egs' = EgsValidate(egs)

EgsValidateAction ==
    egs.pc = "start" /\ EgsValidationError(egs) = "none" /\ egs' = EgsValidate(egs)

EgsPrepareAction == egs.pc = "prepare" /\ egs' = EgsPrepare(egs)

EgsExtractAction == egs.pc = "extract" /\ egs' = EgsExtract(egs)

EgsParseAction == egs.pc = "parse" /\ egs' = EgsParse(egs)

EgsFilterAction == egs.pc = "filter" /\ egs' = EgsFilter(egs)

EgsStandardAction == egs.pc = "standard" /\ egs' = EgsStandard(egs)

EgsWarnAction == egs.pc = "warn" /\ egs' = EgsWarn(egs)

EgsNext ==
    /\ \/ EgsRaiseAction
       \/ EgsValidateAction
       \/ EgsPrepareAction
       \/ EgsExtractAction
       \/ EgsParseAction
       \/ EgsFilterAction
       \/ EgsStandardAction
       \/ EgsWarnAction
    /\ UNCHANGED <<dec_vars, ecav, tf, pgv, pt, obs>>

SpecEGS == EgsInit /\ [][EgsNext]_vars

(***************************************************************************)
(* The obs_id of the parsed rows: gleason_extraction.py:745-750            *)
(***************************************************************************)

\* gleason_extraction.py:748  text_id * 1000
ObsIdFactor == 1000

\* most texts of a table, and most parsed rows of a text of the tables
\* that are enumerated exhaustively
MaxObsTexts == 2

MaxObsRows == 3

ObsTextIdValues == {0, 1, 2}

\* the parsed rows of one text: n rows, two from each match ("3+4 / 4+3"),
\* with the obs_id of their match
ObsRowsOfText(text_id, n) ==
    [k \in 1..n |->
        [text_id |-> text_id, obs_id |-> text_id * ObsIdFactor + ((k + 1) \div 2),
         orig_obs_id |-> NaN, match_type |-> "a + b",
         a |-> 3 + (k % 2), b |-> 4 - (k % 2), t |-> NaN, c |-> NaN]]

\* parsed_dt: the rows of the texts, text after text
RECURSIVE ObsTable(_, _)
ObsTable(text_ids, counts) ==
    IF text_ids = <<>> THEN <<>>
    ELSE ObsRowsOfText(Head(text_ids), Head(counts)) \o ObsTable(Tail(text_ids), Tail(counts))

\* unique text ids
ObsTextIds ==
    {ids \in SeqsUpTo(ObsTextIdValues, MaxObsTexts) :
        \A i, j \in 1..Len(ids) : i # j => ids[i] # ids[j]}

\* the numbers of rows of a long text followed by a text of one row
ObsLongCounts == { <<ObsIdFactor - 1, 1>>, <<ObsIdFactor, 1>>, <<ObsIdFactor + 1, 1>> }

ObsLongTextIds == { <<1, 2>>, <<2, 1>>, <<0, 1>> }

ObsCall(text_ids, counts) ==
    [text_ids |-> text_ids, counts |-> counts,
     parsed_dt |-> AsSeq(ObsTable(text_ids, counts)), pc |-> "parsed", err |-> "none"]

\* gleason_extraction.py:746-748
ObsRenumber(st) == [st EXCEPT !.parsed_dt = Renumbered(st.parsed_dt), !.pc = "numbered"]

\* gleason_extraction.py:750, utils.py:207-225  the checks of
\* typed_format_dt_to_standard_format_dt on the renumbered table
ObsCheck(st) ==
    LET e == TypedFormatError(st.parsed_dt)
    IN  [st EXCEPT !.err = e, !.pc = IF e = "none" THEN "checked" ELSE "raise"]

ObsInit ==
    /\ obs \in UNION {{ObsCall(ids, counts) : counts \in [1..Len(ids) -> 0..MaxObsRows]} :
                          ids \in ObsTextIds}
               \cup {ObsCall(ids, counts) : ids \in ObsLongTextIds, counts \in ObsLongCounts}
    /\ dec_dt = <<>> /\ n_max_each = 0 /\ dec_type = <<>> /\ dec_grp = <<>>
    /\ dec_grp_type = <<>> /\ max_grp = 0 /\ dec_pc = "idle"
    /\ ecav = <<>>
    /\ egs = <<>>
    /\ tf = <<>>
    /\ pgv = <<>> /\ pt = <<>>

ObsRenumberAction == obs.pc = "parsed" /\ obs' = ObsRenumber(obs)

ObsCheckedAction ==
    obs.pc = "numbered" /\ ObsCheck(obs).pc = "checked" /\ obs' = ObsCheck(obs)

ObsRaiseAction ==
    obs.pc = "numbered" /\ ObsCheck(obs).pc = "raise" /\ obs' = ObsCheck(obs)

ObsNext ==
    (ObsRenumberAction \/ ObsCheckedAction \/ ObsRaiseAction)
    /\ UNCHANGED <<dec_vars, ecav, egs, tf, pgv, pt>>

SpecOBS == ObsInit /\ [][ObsNext]_vars

(***************************************************************************)
(* Claims about extract_context_affixed_values                             *)
(***************************************************************************)

C2_NoOverlapWithMasked ==
    \A k \in 1..Len(ecav.span) : ecav.span[k].src # 0

\* the number of recorded matches of rule k in the current text
MatchesOfRule(k) ==
    Cardinality({j \in 1..Len(ecav.pattern_names) :
                    ecav.pattern_names[j] = ecav.pattern_dt[k].pattern_name})

\* the while loop stands at a rule that has used all its tries and still matches
CapReached ==
    /\ ecav.pc = "while"
    /\ ecav.n_tries = ecav.n_max_tries_per_pattern
    /\ re_search(ecav.pattern_dt[ecav.row].full_pattern, ecav.text_elem) # <<>>

\* C3: at most n_max_tries_per_pattern matches of a rule are recorded per
\* text; reaching the cap raises nothing and extraction goes on with the
\* next rule.
C3_SilentCap ==
    /\ [](\A k \in 1..Len(ecav.pattern_dt) : MatchesOfRule(k) <= ecav.n_max_tries_per_pattern)
    /\ [][CapReached =>
            /\ ecav'.pc = "pattern"
            /\ ecav'.err = "none"
            /\ ecav'.extracted = ecav.extracted
            /\ ecav'.row = ecav.row]_vars

\* the cap was reached at the first rule and the second rule matched afterwards
C3_Witness ==
    /\ ecav.pc = "while"
    /\ ecav.row = 2
    /\ ecav.n_tries = 1
    /\ Len(ecav.extracted) = 2
    /\ re_search(ecav.pattern_dt[1].full_pattern, ecav.text_elem) # <<>>

(***************************************************************************)
(* Claims about determine_element_combinations                             *)
(***************************************************************************)

\* the rows that the step gives a grp
DecNewRows == {k \in 1..Len(dec_grp) : dec_grp[k] = NaN /\ dec_grp'[k] # NaN}

\* a pass of the while loop that accepted a candidate
DecAccepted == dec_pc = "loop" /\ dec_grp' # dec_grp

\* C7: on valid input every row ends with exactly one group id, the ids used
\* are exactly 0..k-1, and they are numbered in order of first appearance
\* (the first row has id 0, each new id is the previous maximum plus 1).
C7_TotalContiguousIds ==
    dec_pc = "return" =>
        /\ Len(dec_grp) = Len(dec_dt)
        /\ \A k \in 1..Len(dec_grp) : dec_grp[k] \in Nat
        /\ Range(dec_grp) = 0..(Cardinality(Range(dec_grp)) - 1)
        /\ \A k \in 1..Len(dec_grp) :
              \/ \E j \in 1..(k-1) : dec_grp[j] = dec_grp[k]
              \/ dec_grp[k] = Cardinality({dec_grp[j] : j \in 1..(k-1)})

C7_Witness ==
    /\ dec_pc = "return"
    /\ Len(dec_grp) = MaxRows
    /\ Cardinality(Range(dec_grp)) = 3
    /\ \E k \in 1..Len(dec_grp) : Len(dec_grp_type[k]) = 4

\* C8: a window matched with n_each > 1 gets n_each distinct ids, interleaved:
\* the row at offset p of the window gets the (p mod n_each)-th new id, so the
\* k-th occurrence of every role gets the k-th id; with n_each = 1 all rows
\* of the window get one id.
C8_InterleavedIds ==
    [][DecAccepted =>
        \E wh \in DecNewRows :
            /\ \A k \in DecNewRows : wh <= k
            /\ \E n_each \in 1..n_max_each :
                  /\ \E i \in 1..Len(allowed_combinations) :
                        dec_grp_type'[wh] = np_repeat(allowed_combinations[i], n_each)
                  /\ \A k \in DecNewRows : dec_grp'[k] = max_grp + ((k - wh) % n_each)]_vars

C10_FirstPairWins ==
    [][DecAccepted =>
        \E wh \in DecNewRows :
            /\ \A k \in 1..Len(dec_grp) : k < wh <=> dec_grp[k] # NaN
            /\ \A k \in 1..Len(dec_grp) :
                  dec_grp[k] # NaN => dec_grp'[k] = dec_grp[k] /\ dec_grp_type'[k] = dec_grp_type[k]
            /\ \E i \in 1..Len(allowed_combinations), n \in 1..n_max_each :
                  LET Fits(j, m) ==
                        LET cand == np_repeat(allowed_combinations[j], m)
                        IN  /\ wh + Len(cand) - 1 <= Len(dec_type)
                            /\ \A k \in 1..Len(cand) : dec_type[wh + k - 1] = cand[k]
                  IN  /\ Fits(i, n)
                      /\ DecNewRows = wh..(wh + Len(allowed_combinations[i]) * n - 1)
                      /\ \A k \in DecNewRows :
                            dec_grp_type'[k] = np_repeat(allowed_combinations[i], n)
                      /\ \A j \in 1..Len(allowed_combinations), m \in 1..n_max_each :
                            (j < i \/ (j = i /\ m < n)) => ~Fits(j, m)]_vars

C10_Witness ==
    /\ dec_pc = "loop"
    /\ n_max_each = 2
    /\ dec_type = <<"a", "a", "a", "b", "b", "b">>
    /\ dec_grp = <<0, 1, 1, 1, 1, NaN>>

\* C11: for the roles a, a, b, b, c the 1st, 3rd and 5th rows get one grp
\* and the 2nd and 4th rows another grp of their own ({{A,B,C}, {A,B}}).
C11_DocstringExample ==
    (dec_pc = "return" /\ dec_type = <<"a", "a", "b", "b", "c">>) =>
        /\ dec_grp[1] = dec_grp[3] /\ dec_grp[3] = dec_grp[5]
        /\ dec_grp[2] = dec_grp[4]
        /\ dec_grp[1] # dec_grp[2]

(***************************************************************************)
(* Claims about extract_gleason_scores                                     *)
(***************************************************************************)

\* the call passes every check of lines 705-724
EgsUsageValid == EgsValidationError(egs) = "none"

\* the text that was paired with text_id
TextOf(text_id) == egs.texts[CHOOSE k \in 1..Len(egs.text_ids) : egs.text_ids[k] = text_id]

\* C4: a null or empty text is a data case: it contributes no row and raises
\* nothing; a usage-valid call in which no text yields an observation (all
\* texts null, empty or without a match) raises no error and returns an
\* empty table.
C4_EmptyBatchReturnsEmpty ==
    EgsUsageValid =>
        /\ egs.pc = "return" => \A k \in 1..Len(egs.out) : Truthy(TextOf(egs.out[k].text_id))
        /\ egs.extr_dt = <<>> => egs.pc # "raise" /\ egs.out = <<>>

\* text_ids has a duplicate, or texts and text_ids differ in length
EgsIdsRejected ==
    \/ Cardinality(Range(egs.text_ids)) # Len(egs.text_ids)
    \/ Len(egs.texts) # Len(egs.text_ids)

\* C5: a call whose text_ids has a duplicate, or whose texts and text_ids
\* differ in length, is rejected as a whole: its first step raises an error,
\* and no text is normalised or matched and no row is produced.
C5_IdErrorsFailFast ==
    /\ [](EgsIdsRejected =>
            /\ egs.pc \in {"start", "raise"}
            /\ egs.prepared = <<>> /\ egs.extr_dt = <<>>
            /\ egs.parsed_dt = <<>> /\ egs.out = <<>>)
    /\ [][EgsIdsRejected /\ egs.pc = "start" => egs'.pc = "raise" /\ egs'.err # "none"]_vars

\* a call with two texts that hold values and a duplicate id was rejected
C5_Witness ==
    /\ egs.pc = "raise"
    /\ egs.err = "ValueError: text ids must be unique"
    /\ egs.texts = << <<"g", "3", "+", "4">>, <<"m", "3", "s", "4">> >>
    /\ egs.text_ids = <<1, 1>>
    /\ egs.pattern_dt = FcrDt

\* the errors about a match_type of the pattern table
MatchTypeErrors ==
    {"ValueError: Match type did not exist in instructions",
     "ValueError: Match type need to be among"}

\* C6: every match_type error is raised before processing begins: when a
\* call is rejected for a match_type of its pattern table, no text has been
\* normalised or matched (a table that passes the upfront check is not
\* rejected for a match_type later in the call).
C6_MatchTypeErrorsUpfront ==
    egs.err \in MatchTypeErrors => egs.prepared = <<>> /\ egs.extr_dt = <<>>

(***************************************************************************)
(* Claims about typed_format_dt_to_standard_format_dt                      *)
(***************************************************************************)

\* row k of the argument is a solitary observation
TfSolitary(k) == is_single_elem_match(tf.dt[k])

\* row k continues the run of solitary observations of row k - 1: same
\* text, consecutive obs_id
TfAdjacent(k) ==
    /\ k \in 2..Len(tf.dt)
    /\ TfSolitary(k - 1) /\ TfSolitary(k)
    /\ tf.dt[k - 1].text_id = tf.dt[k].text_id
    /\ tf.dt[k].obs_id = tf.dt[k - 1].obs_id + 1

\* the rows i..j are a whole run of adjacent solitary observations
TfRun(i, j) ==
    /\ i \in 1..Len(tf.dt) /\ j \in i..Len(tf.dt)
    /\ TfSolitary(i) /\ ~TfAdjacent(i)
    /\ \A k \in (i + 1)..j : TfAdjacent(k)
    /\ ~TfAdjacent(j + 1)

\* the roles of the rows i..j
TfRunTypes(i, j) == [k \in 1..(j - i + 1) |-> tf.dt[i + k - 1].match_type]

\* the number of rows of dt of the text text_id with the value v under role
TfCount(dt, text_id, role, v) ==
    Cardinality({k \in 1..Len(dt) : dt[k].text_id = text_id /\ dt[k][role] = v})

\* the rows of the result with an obs_id of the rows i..j of the argument
TfOutOf(i, j) ==
    SelectSeq(tf.out, LAMBDA row : \E k \in i..j : row.obs_id = tf.dt[k].obs_id)

\* C12: no value is dropped or duplicated: every non-null a/b/t/c value of
\* an input row is in exactly one output row of the same text under the
\* same role (and the output holds no other value); a whole run of adjacent
\* solitary values that is an allowed combination becomes one row; a
\* solitary value with no adjacent solitary value stays a row of its own;
\* the run a, b, a becomes the rows {a, b} and {a}.
C12_NoValueLost ==
    tf.pc = "return" =>
        /\ \A text_id \in 0..Len(tf.dt), role \in RoleSet, v \in 1..Len(tf.dt) :
              TfCount(tf.out, text_id, role, v) = TfCount(tf.dt, text_id, role, v)
        /\ \A k \in 1..Len(tf.out), role \in RoleSet :
              tf.out[k][role] \in 1..Len(tf.dt) \cup {NaN}
        /\ \A i, j \in 1..Len(tf.dt) :
              (TfRun(i, j) /\ \E c \in 1..Len(allowed_combinations) :
                                 TfRunTypes(i, j) = allowed_combinations[c]) =>
                  /\ Len(TfOutOf(i, j)) = 1
                  /\ \A k \in i..j : TfOutOf(i, j)[1][tf.dt[k].match_type] = k
        /\ \A i, j \in 1..Len(tf.dt) :
              (TfRun(i, j) /\ TfRunTypes(i, j) = <<"a", "b", "a">>) =>
                  /\ Len(TfOutOf(i, j)) = 2
                  /\ TfOutOf(i, j)[1].a = i /\ TfOutOf(i, j)[1].b = i + 1
                  /\ TfOutOf(i, j)[2].a = i + 2 /\ TfOutOf(i, j)[2].b = NaN

\* the run a, b, a of one text was returned as two rows
C12_Witness ==
    /\ tf.pc = "return"
    /\ Len(tf.dt) = 3
    /\ TfRun(1, 3) /\ TfRunTypes(1, 3) = <<"a", "b", "a">>
    /\ Len(tf.out) = 2

TfSources(row) == {k \in 1..Len(tf.dt) : \E role \in RoleSet : tf.dt[k][role] = k /\ row[role] = k}

\* C14: two solitary observations are combined into one row only if they
\* lie in one run of solitary observations of the same text with
\* consecutive obs_id; a non-solitary observation is returned as it is and
\* breaks the adjacency: the rows {a}, {a, b}, {b} are returned as three rows.
C14_OnlyAdjacentCombined ==
    tf.pc = "return" =>
        /\ \A m \in 1..Len(tf.out) : \A p, q \in TfSources(tf.out[m]) :
              p < q => \A k \in (p + 1)..q : TfAdjacent(k)
        /\ \A k \in 1..Len(tf.dt) :
              ~TfSolitary(k) => \E m \in 1..Len(tf.out) : tf.out[m] = StandardRow(tf.dt[k])
        /\ (/\ Len(tf.dt) = 3
            /\ [k \in 1..3 |-> tf.dt[k].match_type] = <<"a", "a + b", "b">>) =>
               tf.out = [k \in 1..3 |-> StandardRow(tf.dt[k])]

\* {a}, {a, b}, {b} of one text with running obs_id was returned
C14_Witness ==
    /\ tf.pc = "return"
    /\ Len(tf.dt) = 3
    /\ [k \in 1..3 |-> tf.dt[k].match_type] = <<"a", "a + b", "b">>
    /\ \A k \in 1..3 : tf.dt[k].text_id = 0 /\ tf.dt[k].obs_id = k
    /\ Len(tf.out) = 3

\* the rows that have no grp yet
DecUnassigned(grp) == {k \in 1..Len(grp) : grp[k] = NaN}

\* C26: determine_element_combinations terminates on every valid input:
\* each pass of the loop assigns a grp to at least one row that had none,
\* there are never more passes than rows, and the function returns (or has
\* raised on an invalid input).
C26_Terminates ==
    /\ [][(dec_pc = "loop" /\ dec_pc' = "loop") =>
            /\ DecUnassigned(dec_grp') \subseteq DecUnassigned(dec_grp)
            /\ DecUnassigned(dec_grp') # DecUnassigned(dec_grp)
            /\ max_grp' = max_grp + 1]_vars
    /\ [](max_grp <= Len(dec_dt))
    /\ <>(dec_pc \in {"return", "raise"})

\* three rows that no longer template fits were returned after three passes,
\* each by the template of its own role
C26_Witness ==
    /\ dec_pc = "return"
    /\ dec_type = <<"t", "c", "t">>
    /\ dec_grp_type = << <<"t">>, <<"c">>, <<"t">> >>
    /\ max_grp = 3

\* C27: extract_context_affixed_values raises ValueError at the moment the
\* 1000th match of one text is recorded and returns no table; while a text
\* has at most 999 recorded matches this error is not raised.
C27_RaisesAtThousandthMatch ==
    /\ Len(ecav.extracted) <= 1000
    /\ Len(ecav.extracted) = 1000 <=> ecav.err = "ValueError: 1000 matches"
    /\ ecav.err = "ValueError: 1000 matches" => ecav.pc = "raise"

\* the 1000th match of the text was recorded and the error raised
C27_Witness ==
    /\ ecav.pc = "raise"
    /\ ecav.err = "ValueError: 1000 matches"
    /\ Len(ecav.extracted) = 1000
    /\ ecav.n_tries = 1000

\* the rows of extr_dt that belong to the current text
EcavRowsOfText == {j \in 1..Len(ecav.extr_dt) : ecav.extr_dt[j].pos = ecav.idx - 1}

\* C29: for every text exactly one row is returned for each recorded match:
\* the order numbers read back from the masked text are a permutation of
\* 0..k-1 for the k recorded matches (no mask token is destroyed by a later
\* match, no order token is read that the function did not write).
C29_OneRowPerMatch ==
    /\ ecav.err # "KeyError"
    /\ (ecav.pc \in {"text", "return"} /\ ecav.idx >= 1) =>
           /\ Cardinality(EcavRowsOfText) = Len(ecav.extracted)
           /\ {ecav.extr_dt[j].order : j \in EcavRowsOfText} = 0..(Len(ecav.extracted) - 1)

(***************************************************************************)
(* Claims about the table extract_gleason_scores returns                   *)
(***************************************************************************)

\* the typed rows of the text text_id that hold the value v under role, each
\* extracted from the text that was paired with text_id
EgsTypedSources(text_id, role, v) ==
    {k \in 1..Len(egs.parsed_dt) :
        /\ egs.parsed_dt[k].text_id = text_id
        /\ egs.parsed_dt[k][role] = v
        /\ egs.extr_dt[egs.parsed_dt[k].pos + 1].text_id = text_id
        /\ egs.text_ids[egs.extr_dt[egs.parsed_dt[k].pos + 1].pos + 1] = text_id}

\* C15: every returned row carries the text_id paired with the text its
\* values were extracted from, and all its values come from that one text:
\* each value of the row was parsed from an observation of the text with
\* that text_id, and its digits are in that text.
C15_RowsOfOneText ==
    egs.pc = "return" =>
        \A m \in 1..Len(egs.out) :
            /\ egs.out[m].text_id \in Range(egs.text_ids)
            /\ \A role \in RoleSet :
                  egs.out[m][role] # NaN =>
                      /\ EgsTypedSources(egs.out[m].text_id, role, egs.out[m][role]) # {}
                      /\ Range(Str(egs.out[m][role])) \subseteq Range(TextOf(egs.out[m].text_id))

\* two texts with different values, ids in descending order, were returned
\* as one row each
C15_Witness ==
    /\ egs.pc = "return"
    /\ egs.texts = << <<"m", "3", "s", "4">>, <<"G", "7">> >>
    /\ egs.text_ids = <<2, 1>>
    /\ Len(egs.out) = 2
    /\ egs.out[1].text_id = 1 /\ egs.out[1].c = 7
    /\ egs.out[2].text_id = 2 /\ egs.out[2].a = 3 /\ egs.out[2].b = 4

\* the characters of sub occur in text in this order (not necessarily
\* next to each other), from the index from on
RECURSIVE OccursInOrder(_, _, _)
OccursInOrder(sub, text, from) ==
    IF sub = <<>> THEN TRUE
    ELSE IF from > Len(text) THEN FALSE
    ELSE IF text[from] = Head(sub) THEN OccursInOrder(Tail(sub), text, from + 1)
    ELSE OccursInOrder(sub, text, from + 1)

\* the values extracted from the text at index i, one after the other
EgsValuesOf(i) ==
    Concat(AsSeq([k \in 1..Len(egs.extr_dt) |->
                     IF egs.extr_dt[k].pos = i - 1 THEN egs.extr_dt[k].value ELSE <<>>]), 1)

\* the index in extr_dt of the observation whose obs_id the returned row m kept
EgsOrigin(m) ==
    egs.parsed_dt[CHOOSE k \in 1..Len(egs.parsed_dt) :
                      egs.parsed_dt[k].obs_id = egs.out[m].obs_id].pos

\* C16: the returned table is sorted by (text_id, obs_id) ascending, obs_id
\* is unique per row, and within one text it is strictly increasing in the
\* order in which the observations appear in the text: a later row of a text
\* stems from a later observation, and the observations of a text are
\* numbered in the order in which their values stand in the text.
C16_SortedByIds ==
    egs.pc = "return" =>
        /\ \A j, k \in 1..Len(egs.out) :
              j < k =>
                  /\ egs.out[j].obs_id # egs.out[k].obs_id
                  /\ egs.out[j].text_id <= egs.out[k].text_id
                  /\ egs.out[j].text_id = egs.out[k].text_id =>
                        /\ egs.out[j].obs_id < egs.out[k].obs_id
                        /\ EgsOrigin(j) <= EgsOrigin(k)
        /\ \A j, k \in 1..Len(egs.extr_dt) :
              (j < k /\ egs.extr_dt[j].text_id = egs.extr_dt[k].text_id) =>
                  egs.extr_dt[j].obs_id < egs.extr_dt[k].obs_id
        /\ \A i \in 1..Len(egs.texts) :
              egs.prepared[i] # None => OccursInOrder(EgsValuesOf(i), egs.prepared[i], 1)

\* two texts given with descending text ids; the second one has its addition,
\* which is found first, after its keyword values, and is returned first
C16_Witness ==
    /\ egs.pc = "return"
    /\ egs.texts = << <<"G", "7">>, <<"m", "3", "s", "4", " ", "g", "4", "+", "5">> >>
    /\ egs.text_ids = <<2, 1>>
    /\ Len(egs.out) = 3
    /\ egs.out[1].text_id = 1 /\ egs.out[1].a = 3 /\ egs.out[1].b = 4
    /\ egs.out[2].text_id = 1 /\ egs.out[2].a = 4 /\ egs.out[2].b = 5
    /\ egs.out[3].text_id = 2 /\ egs.out[3].c = 7

\* the obs ids of the rows of dt that belong to the text text_id
EgsIdsOf(dt, text_id) == {dt[k].obs_id : k \in {j \in 1..Len(dt) : dt[j].text_id = text_id}}

\* the dense counter of n observations of the text text_id
EgsDense(text_id, n) == {text_id * 1000 + i : i \in 1..n}

\* C17 as stated: within each text the obs ids of the returned rows are a
\* dense running counter without gaps, also after solitary observations
\* have been merged into combined rows.
C17_DenseAfterMerging ==
    egs.pc = "return" =>
        \A text_id \in Range(egs.text_ids) :
            EgsIdsOf(egs.out, text_id)
                = EgsDense(text_id, Cardinality(EgsIdsOf(egs.out, text_id)))

\* C17 as amended: within each text the obs ids are a dense running counter
\* over the observations before merging; every returned row keeps the id of
\* one of them, the first returned row of a text the first id, so the ids of
\* the returned rows increase within a text but may have gaps after merging.
C17_DenseBeforeMerging ==
    egs.pc = "return" =>
        \A text_id \in Range(egs.text_ids) :
            /\ EgsIdsOf(egs.parsed_dt, text_id)
                   = EgsDense(text_id, Cardinality(EgsIdsOf(egs.parsed_dt, text_id)))
            /\ Cardinality(EgsIdsOf(egs.parsed_dt, text_id))
                   = Cardinality({k \in 1..Len(egs.parsed_dt) :
                                      egs.parsed_dt[k].text_id = text_id})
            /\ EgsIdsOf(egs.out, text_id) \subseteq EgsIdsOf(egs.parsed_dt, text_id)
            /\ EgsIdsOf(egs.parsed_dt, text_id) # {} =>
                   text_id * 1000 + 1 \in EgsIdsOf(egs.out, text_id)

\* a second text whose two keyword values were merged into the row with the
\* first id and whose addition kept the third id
C17_Witness ==
    /\ egs.pc = "return"
    /\ egs.texts = << <<"G", "7">>, <<"m", "3", "s", "4", " ", "g", "4", "+", "5">> >>
    /\ egs.text_ids = <<1, 2>>
    /\ EgsIdsOf(egs.parsed_dt, 2) = {2001, 2002, 2003}
    /\ EgsIdsOf(egs.out, 2) = {2001, 2003}

\* the returned row m has a value in each of a, b and c
EgsComplete(m) == egs.out[m].a # NaN /\ egs.out[m].b # NaN /\ egs.out[m].c # NaN

\* C18: every returned row with a, b and c all non-null and a null warning
\* has a + b = c, and every returned row with a, b and c non-null and
\* a + b # c carries a warning that contains "a + b != c".
C18_AdditiveIdentity ==
    egs.pc = "return" =>
        \A m \in 1..Len(egs.out) :
            EgsComplete(m) =>
                /\ egs.out[m].warning = <<>> => egs.out[m].a + egs.out[m].b = egs.out[m].c
                /\ egs.out[m].a + egs.out[m].b # egs.out[m].c =>
                       score_warning \in Range(egs.out[m].warning)

\* a text with 3, 4 and the score 7 returned without a warning next to a
\* text with 3, 4 and the score 8 returned with the warning
C18_Witness ==
    /\ egs.pc = "return"
    /\ egs.texts = << <<"m", "3", "s", "4", " ", "g", "7">>,
                      <<"m", "3", "s", "4", " ", "g", "8">> >>
    /\ Len(egs.out) = 2
    /\ EgsComplete(1) /\ egs.out[1].c = 7 /\ egs.out[1].warning = <<>>
    /\ EgsComplete(2) /\ egs.out[2].c = 8 /\ egs.out[2].warning = <<score_warning>>

\* the rows returned for the text at index i of the call
EgsRowsOf(i) == SelectSeq(egs.out, LAMBDA row : row.text_id = egs.text_ids[i])

\* the frame of the call with the text at index i alone, at its end (out has
\* no rows when it raised)
EgsAlone(i) ==
    EgsRun(EgsCall(<<egs.texts[i]>>, <<egs.text_ids[i]>>, egs.format, egs.pattern_dt, TRUE))

\* C19: the rows returned for a text (values, obs_id and warning) are the
\* same whether the text is processed alone or in a batch with other texts.
C19_BatchIndependent ==
    egs.pc = "return" =>
        \A i \in 1..Len(egs.texts) : EgsRowsOf(i) = EgsAlone(i).out

\* C20: a call of extract_gleason_scores (and the call of
\* extract_context_affixed_values in it) leaves the pattern table it was
\* given unchanged: no step of the call adds or overwrites a column of it.
C20_PatternTableUnchanged == [][egs'.pattern_dt = egs.pattern_dt]_vars

\* C21: in every returned row each non-null a, b and t is in {3, 4, 5} and
\* each non-null c is in {6, 7, 8, 9, 10}.
C21_ValueDomain ==
    egs.pc = "return" =>
        \A m \in 1..Len(egs.out) :
            /\ egs.out[m].a \in {3, 4, 5, NaN}
            /\ egs.out[m].b \in {3, 4, 5, NaN}
            /\ egs.out[m].t \in {3, 4, 5, NaN}
            /\ egs.out[m].c \in {6, 7, 8, 9, 10, NaN}

\* a text whose extracted addition holds the grade 2 was returned as a row
\* without that grade
C21_Witness ==
    /\ egs.pc = "return"
    /\ egs.texts = << <<"g", "3", "+", "2">> >>
    /\ egs.extr_dt[1].value = <<"3", "+", "2">>
    /\ Len(egs.out) = 1
    /\ egs.out[1].a = 3 /\ egs.out[1].b = NaN

(***************************************************************************)
(* Claims about parse_gleason_value_string_elements                        *)
(***************************************************************************)

\* the roles that the instructions of a match type extract
RequiredRoles(match_type) ==
    PatternNames(component_parsing_instructions_by_match_type[match_type][1])

\* the returned row lacks a role that its match type requires
PgvLacksRole(row) == \E role \in RequiredRoles(row.match_type) : row[role] = NaN

\* the call has ended and was a valid one: as many match types as value
\* strings, at least one, every match type known to the instructions
PgvValidCallEnded ==
    /\ pgv.pc \in {"return", "raise"}
    /\ Len(pgv.value_strings) = Len(pgv.match_types)
    /\ Len(pgv.value_strings) >= 1
    /\ Range(pgv.match_types) \subseteq Range(instruction_keys)

\* C22: parse_gleason_value_string_elements never raises because the values
\* of a value string do not fit its match type: it returns, and every
\* returned row that lacks a role required by its match type carries a
\* non-null warning.
C22_MisfitWarnsNeverRaises ==
    PgvValidCallEnded =>
        /\ pgv.pc = "return"
        /\ \A k \in 1..Len(pgv.dt) : PgvLacksRole(pgv.dt[k]) => pgv.dt[k].warning # <<>>

\* C23: every returned row of the match type kw_all_a has b equal to a, the
\* single parsed grade.
C23_KwAllAMirrored ==
    pgv.pc = "return" =>
        \A k \in 1..Len(pgv.dt) :
            pgv.dt[k].match_type = "kw_all_a" =>
                pgv.dt[k].a # NaN /\ pgv.dt[k].b = pgv.dt[k].a

\* the value string "3" of the match type kw_all_a was returned as a = 3, b = 3
C23_Witness ==
    /\ pgv.pc = "return"
    /\ pgv.value_strings = << <<"3">> >>
    /\ pgv.match_types = <<"kw_all_a">>
    /\ Len(pgv.dt) = 1
    /\ pgv.dt[1].a = 3 /\ pgv.dt[1].b = 3

\* C30: a returned row carries a match-type warning only if the row itself
\* lacks a role required by its match type: a row whose required roles are
\* all non-null has a null warning, whatever the other value strings hold.
C30_WarningOnlyOnAffectedRow ==
    pgv.pc = "return" =>
        \A k \in 1..Len(pgv.dt) : pgv.dt[k].warning # <<>> => PgvLacksRole(pgv.dt[k])

(***************************************************************************)
(* Claims about the warnings of extract_gleason_scores                     *)
(***************************************************************************)

\* the parsed observation whose obs_id the row m of out kept
EgsOriginRow(m) ==
    egs.parsed_dt[CHOOSE k \in 1..Len(egs.parsed_dt) :
                      egs.parsed_dt[k].obs_id = egs.out[m].obs_id]

\* x is the beginning of y
IsPrefix(x, y) == Len(x) <= Len(y) /\ SubSeq(y, 1, Len(x)) = x

\* C24: a returned row with a match-type problem and a + b # c has one
\* warning string that holds every message, "||" between them, and adding
\* the message "a + b != c" never overwrites or drops a warning the row has.
C24_WarningsJoined ==
    /\ [](egs.pc = "return" =>
            \A m \in 1..Len(egs.out) :
                (EgsOriginRow(m).warning # <<>> /\ ScoreMask(egs.out[m])) =>
                    /\ Range(EgsOriginRow(m).warning) \subseteq Range(egs.out[m].warning)
                    /\ score_warning \in Range(egs.out[m].warning)
                    /\ WarningString(egs.out[m].warning)
                          = WarningString(EgsOriginRow(m).warning)
                              \o <<"||">> \o score_warning)
    /\ [][egs.pc = "warn" =>
            /\ Len(egs'.out) = Len(egs.out)
            /\ \A m \in 1..Len(egs.out) : IsPrefix(egs.out[m].warning, egs'.out[m].warning)]_vars

\* a wrong sum next to a sum without its second grade was returned with the
\* match-type message and the message of the sum
C24_Witness ==
    /\ egs.pc = "return"
    /\ egs.texts = << <<"g", "3", "+", "4", "=", "8">>, <<"g", "3", "+", "=", "7">> >>
    /\ egs.out[1].a = 3 /\ egs.out[1].b = 4 /\ egs.out[1].c = 8
    /\ WarningString(egs.out[1].warning)
           = <<"match type problem", "a + b = c", "||", "a + b != c">>

(***************************************************************************)
(* Claims about obs_id                                                     *)
(***************************************************************************)

\* C28: the obs_id computed as text_id * 1000 + running number of the
\* observation within its text are unique over the whole batch, for any
\* unique integer text ids and any number of observations per text.
C28_ObsIdsUnique ==
    obs.pc = "numbered" =>
        \A i, j \in 1..Len(obs.parsed_dt) :
            i # j => obs.parsed_dt[i].obs_id # obs.parsed_dt[j].obs_id

(***************************************************************************)
(* Claims about prepare_text                                               *)
(***************************************************************************)

\* C25: text normalisation is idempotent: for every text x,
\* prepare_text(prepare_text(x)) = prepare_text(x).
C25_PrepareTextIdempotent == pt.pc = "twice" => pt.twice = pt.once

====
